---- MODULE Spec2Model ----
(***************************************************************************)
(* Realtime synchronisation layer of the coexist app: the realtime hooks   *)
(* (useRealtimeData / useRealtimeQuery), the chat collection with its      *)
(* pagination window, the daily-photo views and the expiring content       *)
(* sweeper (cleanupOldPhotos).                                             *)
(*                                                                         *)
(* Time is counted in hours.  The backend (Firebase Realtime Database) is  *)
(* modelled as a store of subtrees plus, per query, the set of registered  *)
(* listeners; a listener with a pending event is "dirty".                  *)
(***************************************************************************)
EXTENDS Integers, Sequences, FiniteSets, TLC

\* ------------------------------------------------------------------ bounds
MaxSubs == 3           \* subscriptions opened in one run
MaxVal == 1            \* well-formed remote values are 1..MaxVal
MaxMsgs == 21          \* messages written to messages/{coupleId}
MaxSkewed == 1         \* messages sent by a client whose clock is behind
MaxPages == 2          \* pages the chat window grows to
MaxNow == 28           \* last hour of the clock
MaxUploads == 1        \* photos uploaded after the start
MaxCalls == 3          \* performUpdate calls of one useOptimisticUpdate
MaxPresEvents == 4     \* mounts of usePresence plus connections of the client
MaxKeystrokes == 3     \* handleTyping calls of one typing handler
MaxTypNow == 7         \* last second of the typing clock
MaxRxMsgs == 2         \* messages sent to the collections that take reactions
MaxItems == 2          \* items handed to each batching writer
MaxFlushes == 2        \* flushes one useBatchedWrites starts
MaxStrokes == 2        \* strokes started on the CoupleCanvas
MaxPoints == 2         \* points of one CoupleCanvas stroke
MaxRsSubs == 6         \* subscriptions one hook instance is followed for
MaxLines == 2          \* strokes each participant draws on the OptimizedCanvas
MaxLinePoints == 3     \* points of one OptimizedCanvas line
MaxSessEvents == 8     \* session events of one user
MaxPrCalls == 4        \* handleReaction calls of the local user
MaxHours == 2          \* hours the sweep scheduler is followed for
MaxAppMounts == 2      \* times the App mounts

\* --------------------------------------------------------------- constants
NullVal == 0           \* snapshot.val() of an empty location
Malformed == -1        \* a remote value the consumer's transform throws on
PageSize == 20         \* initial messageLimit and its increment
OneDay == 24           \* 24 * 60 * 60 * 1000 ms, in hours
StartNow == OneDay + 2  \* Date.now() when the app starts, in hours
CoupleKey == 0         \* the key of the dailyPhotos/{coupleId} node
TypingDelay == 3       \* setTimeout(..., 3000), in seconds
UploadWait == 1000     \* debounce(uploadBatch, 1000), in ms
WriteDelay == 500      \* useBatchedWrites / useDebouncedWrite delay, in ms

Consumers == {"c1", "c2"}   \* components mounting a realtime hook
Paths == {"p1", "p2"}
Values == {Malformed} \cup (NullVal..MaxVal)
NullData == << -1 >>   \* the hook's data before any snapshot (null)
NullMessages == <<[id |-> 0, timestamp |-> 0]>>  \* the chat's data before any snapshot
NoCallback == [sub |-> 0, kind |-> "none", prevError |-> "none"]

VARIABLES
  store,      \* [Paths -> Values]: remote value stored at each path
  listeners,  \* registered backend listeners: [id, owner, path]
  dirty,      \* ids of listeners with an undelivered event
  hook,       \* [Consumers -> state of the consumer's hook]
  nextSub,    \* id of the next subscription
  closed,     \* ids of the subscriptions whose effect cleanup has run
  lastCb      \* the callback that ran in the last step, if any

subVars == <<store, listeners, dirty, hook, nextSub, closed, lastCb>>

VARIABLES
  msgs,             \* messages/{coupleId}: timestamp of the i-th pushed message
  messageLimit,     \* ChatRoom state: requested window size
  hasMoreMessages,  \* ChatRoom state
  isLoadingMore,    \* ChatRoom state
  chatData,         \* data of the chat's useRealtimeQuery
  chatLoading,      \* loading of the chat's useRealtimeQuery
  chatDirty,        \* the chat's query has an undelivered snapshot
  prevCount,        \* messages the previous request had returned
  scrollTop,        \* scrollTop of the chat's scroll container: 0 at the top
  inFlight          \* load-mores started since the last delivered snapshot

chatVars == <<msgs, messageLimit, hasMoreMessages, isLoadingMore, chatData,
              chatLoading, chatDirty, prevCount, scrollTop, inFlight>>

VARIABLES
  now,            \* Date.now(), in hours
  flatPhotos,     \* dailyPhotos/{photoId}: [id, uid, timestamp]
  couplePhotos,   \* dailyPhotos/{coupleId}/{photoId}: [id, uid, timestamp]
  strokes,        \* canvasStrokes/{coupleId}/{strokeId}: [id, timestamp]
  nextPhoto,      \* the next key push() hands out under dailyPhotos
  sweepPc,        \* cleanupOldPhotos: "idle", "fetching", "removing", "settled"
  sweepFetched,   \* cleanupOldPhotos: the children of the fetched snapshot
  sweepNow,       \* cleanupOldPhotos: Date.now() when oneDayAgo was computed
  sweepIssued,    \* cleanupOldPhotos: keys a remove was issued for
  sweepPending,   \* cleanupOldPhotos: removes still in flight
  sweepOutcome,   \* cleanupOldPhotos: how the returned promise settled
  sweepLogged,    \* cleanupOldPhotos: console.warn was called
  cvPhotos,       \* couple-scoped DailyPhotos: photos (data of the query)
  recentPhotos,   \* couple-scoped DailyPhotos: the memoised recentPhotos
  cvDirty,        \* its query has an undelivered snapshot
  remoteStrokes,  \* OptimizedCanvas: remoteStrokes, copied into lines
  canvasDirty,    \* its query has an undelivered snapshot
  xvMine,         \* photo-exchange DailyPhotos: myPhoto
  xvPartner,      \* photo-exchange DailyPhotos: partnerPhoto
  xvDirty,        \* its listener has an undelivered snapshot
  lvMine,         \* photo-exchange DailyPhotos of Loading.js: myPhoto
  lvPartner,      \* photo-exchange DailyPhotos of Loading.js: partnerPhoto
  lvSawMine,      \* its last snapshot held a photo of the local user
  lvDirty         \* its listener has an undelivered snapshot

storeVars == <<now, flatPhotos, couplePhotos, strokes, nextPhoto>>
sweepVars == <<sweepPc, sweepFetched, sweepNow, sweepIssued, sweepPending,
               sweepOutcome, sweepLogged>>
coupleViewVars == <<cvPhotos, recentPhotos, cvDirty>>
canvasViewVars == <<remoteStrokes, canvasDirty>>
exchangeViewVars == <<xvMine, xvPartner, xvDirty, lvMine, lvPartner,
                      lvSawMine, lvDirty>>
photoVars == <<storeVars, sweepVars, coupleViewVars, canvasViewVars,
               exchangeViewVars>>

coreVars == <<subVars, chatVars, photoVars>>

VARIABLES
  pending,   \* useOptimisticUpdate: the pending Map, NoEntry for no entry
  calls      \* the performUpdate calls: [key, state, invoked, raised, outcome]

optVars == <<pending, calls>>

VARIABLES
  presMounted,  \* the effect of usePresence is active
  connected,    \* the client's connection to the backend is up
  infoDirty,    \* .info/connected has an undelivered event
  wire,         \* requests sent on the connection, not yet at the backend
  presence,     \* presence/{userId} at the backend
  armed,        \* the backend holds an onDisconnect write for presence/{userId}
  srvClock,     \* the backend's clock (serverTimestamp)
  onlineSet,    \* the backend applied a set-online sent on this connection
  dropSeen,     \* the backend has handled the loss of the last connection
  presEvents    \* mounts and connections so far

presVars == <<presMounted, connected, infoDirty, wire, presence, armed,
              srvClock, onlineSet, dropSeen, presEvents>>

VARIABLES
  typMounted,   \* the component using useTypingHandler is mounted
  typFlag,      \* typing/{channel}/{userId} is present at the backend
  typTimers,    \* pending timers of the handler: [id, due]
  typRef,       \* timeoutRef.current: a timer id, 0 for null
  typNow,       \* the clock, in seconds
  typLast,      \* the last step of the handler
  lastTyping,   \* time of the last handleTyping call, -1 after a stop
  keystrokes    \* handleTyping calls so far

typVars == <<typMounted, typFlag, typTimers, typRef, typNow, typLast,
             lastTyping, keystrokes>>

VARIABLES
  rxStore,   \* [Colls -> messages]: messages/{coupleId} and messages
  rxRoot,    \* reactions/{messageId}/{userId}: [msg, uid, emoji]
  rxView,    \* [Colls -> the local user's last snapshot of the collection]
  rxDirty,   \* [Colls -> the listener has an undelivered snapshot]
  rxNext,    \* the next key push() hands out
  rxLast,    \* the last reaction: [coll, msg, uid, emoji, count]
  delLast    \* the last delete request: [kind, author, caller, issued]

rxVars == <<rxStore, rxRoot, rxView, rxDirty, rxNext, rxLast, delLast>>

VARIABLES
  upMounted,   \* OptimizedCanvas is mounted
  upBatch,     \* batchRef.current: strokes waiting for upload
  upTimers,    \* pending timers of scheduleUpload
  upRef,       \* timeout of the debounce closure: a timer id, 0 for none
  upInflight,  \* strokes whose set() is in flight
  upIssued,    \* [stroke -> number of set() calls issued for it]
  upFailed,    \* strokes whose set() was rejected
  upNext,      \* the next stroke drawn
  upLate       \* uploadBatch ran after the unmount

upVars == <<upMounted, upBatch, upTimers, upRef, upInflight, upIssued,
            upFailed, upNext, upLate>>

VARIABLES
  bwMounted,    \* the component using useBatchedWrites is mounted
  queue,        \* useBatchedWrites: queue
  processing,   \* useBatchedWrites: processing
  bwTimers,     \* pending timers of the effect
  bwRef,        \* timer of the last effect run: a timer id, 0 for none
  bwCaptured,   \* queue as captured by the last effect run
  bwFlush,      \* number of the current (or last) flush
  bwAwaiting,   \* Promise.all of the current flush has not settled
  bwInflight,   \* operations in flight: [op, flush]
  bwIssued,     \* [op -> number of times op() was called]
  bwFailed,     \* operations whose last call was rejected
  bwNext        \* the next operation added

bwVars == <<bwMounted, queue, processing, bwTimers, bwRef, bwCaptured,
            bwFlush, bwAwaiting, bwInflight, bwIssued, bwFailed, bwNext>>

VARIABLES
  dwMounted,    \* the component using useDebouncedWrite is mounted
  dwPending,    \* pendingWrites.current: paths waiting to be written
  dwTimers,     \* pending timers of debouncedWrite
  dwRef,        \* timeoutRef.current: a timer id, 0 for null
  dwInflight,   \* paths whose set() is in flight
  dwRequested,  \* [path -> number of debouncedWrite calls]
  dwIssued,     \* [path -> number of set() calls issued]
  dwCalls       \* debouncedWrite calls so far

dwVars == <<dwMounted, dwPending, dwTimers, dwRef, dwInflight, dwRequested,
            dwIssued, dwCalls>>

VARIABLES
  live,          \* canvas/live: ids of the ephemeral stroke copies
  committed,     \* canvas/strokes: ids of the committed strokes
  drawingRef,    \* CoupleCanvas drawingRef.current: a stroke id, 0 for null
  drawPoints,    \* number of points of drawingRef.current, 0 for null
  isDrawing,     \* CoupleCanvas isDrawing
  stopping,      \* stopDrawing calls in progress: [id, phase]
  clearing,      \* handleClear has removed canvas/strokes, not yet canvas/live
  drawNext,      \* the next stroke started
  tracked,       \* strokes started since the last clear
  liveOk,        \* of those, the ones a live write has succeeded for
  commitFailed   \* strokes whose committed write was rejected

drawVars == <<live, committed, drawingRef, drawPoints, isDrawing, stopping, clearing,
              drawNext, tracked, liveOk, commitFailed>>

VARIABLES
  appMounted,   \* the App is mounted
  cleanupId,    \* cleanupId of the App's effect: an interval id, 0 for none
  intervals,    \* ids of the live setInterval timers
  hours,        \* hours elapsed
  sweeps,       \* the cleanupOldPhotos calls: [at, status, settled]
  appMounts     \* times the App has mounted

clVars == <<appMounted, cleanupId, intervals, hours, sweeps, appMounts>>

VARIABLES
  rsMounted,    \* the component calling the realtime hook is mounted
  rsHook,       \* the hook it calls: "data" or "query"
  rsStable,     \* the transform it passes keeps its identity across renders
  rsVal,        \* the value stored at the path: "null", "number" or "object"
  rsData,       \* data of the hook: [kind, ref], ref numbering the objects
  rsLoading,    \* loading of the hook
  rsRenderDue,  \* a state update is waiting for its render
  rsPending,    \* the live subscription has an undelivered snapshot
  rsSubs,       \* onValue calls made by the hook instance
  rsRefs        \* object references the transform has returned

rsVars == <<rsMounted, rsHook, rsStable, rsVal, rsData, rsLoading,
            rsRenderDue, rsPending, rsSubs, rsRefs>>

VARIABLES
  lnLines,      \* OptimizedCanvas lines: sequence of [by, n, pts]
  lnDrawing,    \* isDrawing.current
  lnBatch,      \* batchRef.current: strokes waiting for the debounced upload
  lnStore,      \* canvasStrokes/{coupleId} in key order: [by, n, pts]
  lnDirty,      \* the canvas query has an undelivered snapshot
  lnOwn,        \* numbers of the local strokes being drawn or waiting in the batch
  lnMine,       \* local strokes started so far
  lnTheirs,     \* strokes the partner has uploaded so far
  lnLast,       \* the stroke the last pointer move appended to, if any
  lnCleared     \* handleClear has completed and nobody has drawn since

lnVars == <<lnLines, lnDrawing, lnBatch, lnStore, lnDirty, lnOwn, lnMine,
            lnTheirs, lnLast, lnCleared>>

VARIABLES
  sess,         \* [Sessions -> "out", "online" or "away"]: the sessions of user U
  sessArmed,    \* [Sessions -> the backend holds the session's onDisconnect write]
  sessPresence, \* presence/U at the backend
  sessClock,    \* the backend's clock
  sessEvents    \* session events so far

sessVars == <<sess, sessArmed, sessPresence, sessClock, sessEvents>>

VARIABLES
  prStore,   \* [PrPhotos -> timestamp of the user's reaction entry, 0 for none]
  prView,    \* [PrPhotos -> the entry in the photo.reactions last rendered]
  prDirty,   \* the photos query has an undelivered snapshot
  prNow,     \* Date.now(), one tick per call
  prPair     \* [PrPhotos -> [before, calls]]: the calls made on the photo in a row

prVars == <<prStore, prView, prDirty, prNow, prPair>>

\* Frame tuples: for every group above, the variables outside it.
syncVars == <<optVars, presVars, typVars, rxVars, upVars, bwVars, dwVars, drawVars, clVars, rsVars, lnVars, sessVars, prVars>>
exceptOpt ==
  <<coreVars, presVars, typVars, rxVars,
    upVars, bwVars, dwVars, drawVars,
    clVars, rsVars, lnVars, sessVars,
    prVars>>
exceptPres ==
  <<coreVars, optVars, typVars, rxVars,
    upVars, bwVars, dwVars, drawVars,
    clVars, rsVars, lnVars, sessVars,
    prVars>>
exceptTyp ==
  <<coreVars, optVars, presVars, rxVars,
    upVars, bwVars, dwVars, drawVars,
    clVars, rsVars, lnVars, sessVars,
    prVars>>
exceptRx ==
  <<coreVars, optVars, presVars, typVars,
    upVars, bwVars, dwVars, drawVars,
    clVars, rsVars, lnVars, sessVars,
    prVars>>
exceptUp ==
  <<coreVars, optVars, presVars, typVars,
    rxVars, bwVars, dwVars, drawVars,
    clVars, rsVars, lnVars, sessVars,
    prVars>>
exceptBw ==
  <<coreVars, optVars, presVars, typVars,
    rxVars, upVars, dwVars, drawVars,
    clVars, rsVars, lnVars, sessVars,
    prVars>>
exceptDw ==
  <<coreVars, optVars, presVars, typVars,
    rxVars, upVars, bwVars, drawVars,
    clVars, rsVars, lnVars, sessVars,
    prVars>>
exceptDraw ==
  <<coreVars, optVars, presVars, typVars,
    rxVars, upVars, bwVars, dwVars,
    clVars, rsVars, lnVars, sessVars,
    prVars>>
exceptCl ==
  <<coreVars, optVars, presVars, typVars,
    rxVars, upVars, bwVars, dwVars,
    drawVars, rsVars, lnVars, sessVars,
    prVars>>
exceptRs ==
  <<coreVars, optVars, presVars, typVars,
    rxVars, upVars, bwVars, dwVars,
    drawVars, clVars, lnVars, sessVars,
    prVars>>
exceptLn ==
  <<coreVars, optVars, presVars, typVars,
    rxVars, upVars, bwVars, dwVars,
    drawVars, clVars, rsVars, sessVars,
    prVars>>
exceptSess ==
  <<coreVars, optVars, presVars, typVars,
    rxVars, upVars, bwVars, dwVars,
    drawVars, clVars, rsVars, lnVars,
    prVars>>
exceptPr ==
  <<coreVars, optVars, presVars, typVars,
    rxVars, upVars, bwVars, dwVars,
    drawVars, clVars, rsVars, lnVars,
    sessVars>>
exceptRxAndCore == <<optVars, presVars, typVars, upVars, bwVars, dwVars, drawVars, clVars, rsVars, lnVars, sessVars, prVars>>

vars == <<subVars, chatVars, photoVars, syncVars>>

\* ------------------------------------------------------- realtime hooks
\* useState initial values of useRealtimeData / useRealtimeQuery.
hookInit ==
  [mounted |-> FALSE, kind |-> "data", path |-> "p1", sub |-> 0,
   data |-> NullData, loading |-> TRUE, error |-> "none"]

\* A consumer transform: wraps the value in a list, [] for null, and throws
\* on a malformed value.
transform(val) ==
  IF val = Malformed THEN [threw |-> TRUE, out |-> << >>]
  ELSE IF val = NullVal THEN [threw |-> FALSE, out |-> << >>]
  ELSE [threw |-> FALSE, out |-> <<val>>]

\* onValue(dataRef, cb, errCb): registers one more listener on the query.
onValue(ls, id, c, p) == ls \cup {[id |-> id, owner |-> c, path |-> p]}

unsubscribe_noop(ls, id) == ls

\* The function returned by onValue: removes exactly that listener.
unsubscribe(ls, id) == {l \in ls : l.id # id}

\* off(dataRef) without event type and callback: removes every listener
\* registered on that query, whoever registered it.
off(ls, p) == {l \in ls : l.path # p}

\* The cleanup returned by the effect of the hook of consumer c:
\* unsubscribe() in useRealtimeData, off(dataRef); unsubscribe() in
\* useRealtimeQuery.
cleanup(ls, c) ==
  IF hook[c].kind = "query"
  THEN unsubscribe(off(ls, hook[c].path), hook[c].sub)
  ELSE unsubscribe(ls, hook[c].sub)

Ids(ls) == {l.id : l \in ls}

\* What the cleanup of consumer c does to a callback that was due: the
\* pending event of its subscription is discarded with the listener.
Discarded(c) ==
  IF hook[c].sub \in dirty /\ hook[c].sub \in Ids(listeners)
  THEN [sub |-> hook[c].sub, kind |-> "discarded", prevError |-> "none"]
  ELSE NoCallback

\* The effect body: setLoading(true) and a new subscription, whose first
\* event (the current value) is pending.
Subscribe(c, kind, p, ls, h) ==
  /\ nextSub <= MaxSubs
  /\ listeners' = onValue(ls, nextSub, c, p)
  /\ dirty' = (dirty \cap Ids(ls)) \cup {nextSub}
  /\ hook' = [hook EXCEPT ![c] = [h EXCEPT !.mounted = TRUE, !.kind = kind, !.path = p,
                                          !.sub = nextSub, !.loading = TRUE]]
  /\ nextSub' = nextSub + 1

\* A component using useRealtimeData (kind "data") or useRealtimeQuery
\* (kind "query") mounts: first run of the effect.
Mount(c, kind, p) ==
  /\ ~hook[c].mounted
  /\ Subscribe(c, kind, p, listeners, hookInit)
  /\ lastCb' = NoCallback
  /\ UNCHANGED <<store, closed>>
  /\ UNCHANGED <<chatVars, photoVars, syncVars>>

\* The path argument changes: cleanup of the old effect, then the effect
\* runs again; data and error keep their values.
ChangePath(c, p) ==
  /\ hook[c].mounted
  /\ hook[c].path # p
  /\ Subscribe(c, hook[c].kind, p, cleanup(listeners, c), hook[c])
  /\ closed' = closed \cup {hook[c].sub}
  /\ lastCb' = Discarded(c)
  /\ UNCHANGED store
  /\ UNCHANGED <<chatVars, photoVars, syncVars>>

\* The component unmounts: cleanup of the effect.
Unmount(c) ==
  /\ hook[c].mounted
  /\ listeners' = cleanup(listeners, c)
  /\ dirty' = dirty \cap Ids(listeners')
  /\ closed' = closed \cup {hook[c].sub}
  /\ hook' = [hook EXCEPT ![c] = hookInit]
  /\ lastCb' = Discarded(c)
  /\ UNCHANGED <<store, nextSub>>
  /\ UNCHANGED <<chatVars, photoVars, syncVars>>

\* Some client writes a new value at a path: every listener of the path
\* gets an event.
RemoteWrite(p, v) ==
  /\ store[p] # v
  /\ store' = [store EXCEPT ![p] = v]
  /\ dirty' = dirty \cup {l.id : l \in {x \in listeners : x.path = p}}
  /\ lastCb' = NoCallback
  /\ UNCHANGED <<listeners, hook, nextSub, closed>>
  /\ UNCHANGED <<chatVars, photoVars, syncVars>>

snapshotCallback_keepsError(h, val) ==
  IF transform(val).threw
  THEN [h EXCEPT !.error = "transform", !.loading = FALSE]
  ELSE [h EXCEPT !.data = transform(val).out, !.loading = FALSE]

\* The data callback of onValue: try { setData(transform(val));
\* setError(null) } catch { setError(err) } finally { setLoading(false) }.
snapshotCallback(h, val) ==
  IF transform(val).threw
  THEN [h EXCEPT !.error = "transform", !.loading = FALSE]
  ELSE [h EXCEPT !.data = transform(val).out, !.error = "none",
                 !.loading = FALSE]

\* The backend delivers the pending event of a registered listener.
Deliver(l) ==
  /\ l \in listeners
  /\ l.id \in dirty
  /\ dirty' = dirty \ {l.id}
  /\ hook' = [hook EXCEPT ![l.owner] = snapshotCallback(@, store[l.path])]
  /\ lastCb' = [sub |-> l.id, kind |-> "data",
                prevError |-> hook[l.owner].error]
  /\ UNCHANGED <<store, listeners, nextSub, closed>>
  /\ UNCHANGED <<chatVars, photoVars, syncVars>>

\* The error callback of onValue: setError(err); setLoading(false).
errorCallback(h) == [h EXCEPT !.error = "subscribe", !.loading = FALSE]

\* The backend cancels a listener (permission lost): the error callback
\* runs and the listener is gone.
Cancel(l) ==
  /\ l \in listeners
  /\ listeners' = listeners \ {l}
  /\ dirty' = dirty \ {l.id}
  /\ hook' = [hook EXCEPT ![l.owner] = errorCallback(@)]
  /\ lastCb' = [sub |-> l.id, kind |-> "cancel",
                prevError |-> hook[l.owner].error]
  /\ UNCHANGED <<store, nextSub, closed>>
  /\ UNCHANGED <<chatVars, photoVars, syncVars>>

\* ------------------------------------------------------- chat collection
Min(a, b) == IF a < b THEN a ELSE b

\* Date.now() of the sender of the n-th message; a sender whose clock is
\* behind by d stamps it earlier (d = 2: the previous message's timestamp,
\* d = 3: before the previous message).
Timestamp(n, d) == 2 * n + 2 - d

Skewed(ms) == {i \in 1..Len(ms) : ms[i] # Timestamp(i, 0)}

\* Position of message i in orderByChild('timestamp') order: by timestamp,
\* ties by key.
Rank(ms, i) ==
  Cardinality({j \in 1..Len(ms) :
                 ms[j] < ms[i] \/ (ms[j] = ms[i] /\ j < i)})

\* query(ref, orderByChild('timestamp'), limitToLast(limit)): the keys of
\* the last `limit` children in that order.
limitToLast(ms, limit) ==
  {i \in 1..Len(ms) : Rank(ms, i) >= Len(ms) - limit}

RECURSIVE entries(_, _, _)
\* Object.entries(val).map(([id, msg]) => ({ id, ...msg })): the children
\* of the snapshot in key order, from key i on.
entries(ms, keys, i) ==
  IF i > Len(ms) THEN << >>
  ELSE IF i \in keys
       THEN <<[id |-> i, timestamp |-> ms[i]]>> \o entries(ms, keys, i + 1)
       ELSE entries(ms, keys, i + 1)

RECURSIVE insert(_, _)
\* Insertion of x after every element that is not greater (stable).
insert(sorted, x) ==
  IF sorted = << >> THEN <<x>>
  ELSE IF x.timestamp < sorted[Len(sorted)].timestamp
       THEN insert(SubSeq(sorted, 1, Len(sorted) - 1), x)
              \o <<sorted[Len(sorted)]>>
       ELSE sorted \o <<x>>

RECURSIVE sort(_)
\* messageArray.sort((a, b) => a.timestamp - b.timestamp): stable,
\* ascending by timestamp.
sort(arr) ==
  IF arr = << >> THEN << >>
  ELSE insert(sort(SubSeq(arr, 1, Len(arr) - 1)), arr[Len(arr)])

transformMessages_unsorted(ms, keys) == entries(ms, keys, 1)

\* ChatRoom.transformMessages, the returned list: [] for a null snapshot,
\* else the entries sorted by timestamp.
transformMessages(ms, keys) ==
  IF keys = {} THEN << >> ELSE sort(entries(ms, keys, 1))

\* ChatRoom.transformMessages, the hasMoreMessages it leaves: untouched on
\* a null snapshot (the early return), else length >= messageLimit.
transformHasMore(keys, limit, old) ==
  IF keys = {} THEN old
  ELSE IF Cardinality(keys) < limit THEN FALSE ELSE TRUE

\* sendMessage of either participant: push() a fresh key and set the message
\* with timestamp Date.now(); the chat query gets an event.
SendMessage(d) ==
  /\ Len(msgs) < MaxMsgs
  /\ d # 0 => Cardinality(Skewed(msgs)) < MaxSkewed
  /\ msgs' = Append(msgs, Timestamp(Len(msgs) + 1, d))
  /\ chatDirty' = TRUE
  /\ UNCHANGED <<messageLimit, hasMoreMessages, isLoadingMore, chatData,
                 chatLoading, prevCount, scrollTop, inFlight>>
  /\ UNCHANGED <<subVars, photoVars, syncVars>>

\* The data callback of the chat's useRealtimeQuery with
\* transform = transformMessages.
ChatSnapshot ==
  /\ chatDirty
  /\ chatDirty' = FALSE
  /\ chatData' = transformMessages(msgs, limitToLast(msgs, messageLimit))
  /\ hasMoreMessages' = transformHasMore(limitToLast(msgs, messageLimit),
                                         messageLimit, hasMoreMessages)
  /\ chatLoading' = FALSE
  /\ inFlight' = 0
  /\ UNCHANGED <<msgs, messageLimit, isLoadingMore, prevCount, scrollTop>>
  /\ UNCHANGED <<subVars, photoVars, syncVars>>

canLoadMore_ignoresLoading == ~isLoadingMore /\ hasMoreMessages

\* ChatRoom.handleScroll, the condition under which a scroll event at the
\* top starts a load-more.
canLoadMore == ~chatLoading /\ ~isLoadingMore /\ hasMoreMessages

\* ChatRoom.handleScroll with the container scrolled to the top, and the
\* effect of useRealtimeQuery re-running for the new limit and transform.
HandleScroll ==
  /\ canLoadMore
  /\ messageLimit < PageSize * MaxPages
  /\ scrollTop' = 0
  /\ inFlight' = inFlight + 1
  /\ isLoadingMore' = TRUE
  /\ messageLimit' = messageLimit + PageSize
  /\ chatLoading' = TRUE
  /\ chatDirty' = TRUE
  /\ prevCount' = Len(chatData)
  /\ UNCHANGED <<msgs, hasMoreMessages, chatData>>
  /\ UNCHANGED <<subVars, photoVars, syncVars>>

\* The scroll-restoring effect of ChatRoom: with isLoadingMore, a recorded
\* scroll height and messages it ends the load-more.
ScrollRestore ==
  /\ isLoadingMore
  /\ chatData # NullMessages
  /\ isLoadingMore' = FALSE
  /\ UNCHANGED <<msgs, messageLimit, hasMoreMessages, chatData, chatLoading,
                 chatDirty, prevCount, scrollTop, inFlight>>
  /\ UNCHANGED <<subVars, photoVars, syncVars>>

\* ChatRoom.handleScroll with the container scrolled away from the top, or
\* at the top while no load-more may start: nothing is requested.
ScrollAway(top) ==
  /\ top = 0 => ~canLoadMore
  /\ scrollTop' = top
  /\ UNCHANGED <<msgs, messageLimit, hasMoreMessages, isLoadingMore, chatData,
                 chatLoading, chatDirty, prevCount, inFlight>>
  /\ UNCHANGED <<subVars, photoVars, syncVars>>

InitChat ==
  /\ msgs = << >>
  /\ messageLimit = PageSize
  /\ hasMoreMessages = TRUE
  /\ isLoadingMore = FALSE
  /\ chatData = NullMessages
  /\ chatLoading = TRUE
  /\ chatDirty = TRUE
  /\ prevCount = 0
  /\ scrollTop = 0
  /\ inFlight = 0

NextChat ==
  \/ \E d \in {0, 2, 3} : SendMessage(d)
  \/ ChatSnapshot
  \/ HandleScroll
  \/ ScrollRestore

NextScroll ==
  \/ SendMessage(0)
  \/ ChatSnapshot
  \/ HandleScroll
  \/ ScrollRestore
  \/ \E top \in {0, 1} : ScrollAway(top)

\* ------------------------------------------- daily photos and the sweeper
Users == {"me", "partner"}   \* the local participant and the partner
NoPhoto == [id |-> 0, uid |-> "none", timestamp |-> 0]
NullPhotos == <<NoPhoto>>                    \* photos before any snapshot
NullStrokes == <<[id |-> 0, timestamp |-> 0]>>  \* remoteStrokes before any snapshot
InitTimes == {1, 3}          \* timestamps of the records stored before the start
FirstUpload == 2 * Cardinality(Users) + 1  \* keys below it are taken at the start

\* The children of dailyPhotos as get(ref(database, 'dailyPhotos')) returns
\* them: every flat photo with its timestamp, and the couple node, which
\* holds photos and has no timestamp of its own.
rootChildren(flat, couple) ==
  {[key |-> p.id, hasTimestamp |-> TRUE, timestamp |-> p.timestamp] : p \in flat}
    \cup (IF couple = {} THEN {}
          ELSE {[key |-> CoupleKey, hasTimestamp |-> FALSE, timestamp |-> 0]})

expired_inclusive(photo, oneDayAgo) ==
  photo.hasTimestamp /\ photo.timestamp # 0 /\ photo.timestamp <= oneDayAgo

\* cleanupOldPhotos: photo && photo.timestamp && photo.timestamp < oneDayAgo.
expired(photo, oneDayAgo) ==
  photo.hasTimestamp /\ photo.timestamp # 0 /\ photo.timestamp < oneDayAgo

\* cleanupOldPhotos: the keys the loop pushes a remove for.
deletions(children, t) ==
  {e.key : e \in {x \in children : expired(x, t - OneDay)}}

settle_rethrows(failed) ==
  [outcome |-> IF failed THEN "rejected" ELSE "resolved", logged |-> FALSE]

\* cleanupOldPhotos: the try/catch around the whole body; a failure is
\* logged with console.warn and the promise resolves.
settle(failed) == [outcome |-> "resolved", logged |-> failed]

\* remove(ref(database, `dailyPhotos/${key}`)) taking effect.
removeFlat(flat, key) == {p \in flat : p.id # key}
removeCouple(couple, key) == IF key = CoupleKey THEN {} ELSE couple

\* The clock advances by one hour.
Tick ==
  /\ now < MaxNow
  /\ now' = now + 1
  /\ UNCHANGED <<flatPhotos, couplePhotos, strokes, nextPhoto>>
  /\ UNCHANGED <<sweepVars, coupleViewVars, canvasViewVars, exchangeViewVars>>
  /\ UNCHANGED <<subVars, chatVars, syncVars>>

\* cleanupOldPhotos is called (initCleanup at start, then every hour): the
\* get of dailyPhotos is in flight.
SweepStart ==
  /\ sweepPc \in {"idle", "settled"}
  /\ sweepPending = {}
  /\ sweepPc' = "fetching"
  /\ sweepFetched' = {}
  /\ sweepIssued' = {}
  /\ sweepNow' = 0
  /\ sweepOutcome' = "none"
  /\ sweepLogged' = FALSE
  /\ UNCHANGED sweepPending
  /\ UNCHANGED <<storeVars, coupleViewVars, canvasViewVars, exchangeViewVars>>
  /\ UNCHANGED <<subVars, chatVars, syncVars>>

\* cleanupOldPhotos: get() rejects.
SweepFetchFailed ==
  /\ sweepPc = "fetching"
  /\ sweepPc' = "settled"
  /\ sweepOutcome' = settle(TRUE).outcome
  /\ sweepLogged' = settle(TRUE).logged
  /\ UNCHANGED <<sweepFetched, sweepNow, sweepIssued, sweepPending>>
  /\ UNCHANGED <<storeVars, coupleViewVars, canvasViewVars, exchangeViewVars>>
  /\ UNCHANGED <<subVars, chatVars, syncVars>>

\* cleanupOldPhotos: get() resolves; return if the snapshot does not exist,
\* else compute oneDayAgo, issue the removes and await them if there are any.
SweepFetched ==
  /\ sweepPc = "fetching"
  /\ sweepFetched' = rootChildren(flatPhotos, couplePhotos)
  /\ sweepNow' = now
  /\ sweepIssued' = deletions(sweepFetched', now)
  /\ sweepPending' = sweepIssued'
  /\ IF sweepIssued' = {}
     THEN /\ sweepPc' = "settled"
          /\ sweepOutcome' = settle(FALSE).outcome
          /\ sweepLogged' = settle(FALSE).logged
     ELSE /\ sweepPc' = "removing"
          /\ UNCHANGED <<sweepOutcome, sweepLogged>>
  /\ UNCHANGED <<storeVars, coupleViewVars, canvasViewVars, exchangeViewVars>>
  /\ UNCHANGED <<subVars, chatVars, syncVars>>

\* One of the removes of cleanupOldPhotos completes.  Promise.all rejects at
\* the first failure and resolves when the last remove has succeeded.
RemoveDone(key, ok) ==
  /\ key \in sweepPending
  /\ sweepPending' = sweepPending \ {key}
  /\ flatPhotos' = IF ok THEN removeFlat(flatPhotos, key) ELSE flatPhotos
  /\ couplePhotos' = IF ok THEN removeCouple(couplePhotos, key) ELSE couplePhotos
  /\ xvDirty' = (xvDirty \/ flatPhotos' # flatPhotos)
  /\ lvDirty' = (lvDirty \/ flatPhotos' # flatPhotos)
  /\ cvDirty' = (cvDirty \/ couplePhotos' # couplePhotos)
  /\ IF sweepPc = "removing" /\ (~ok \/ sweepPending' = {})
     THEN /\ sweepPc' = "settled"
          /\ sweepOutcome' = settle(~ok).outcome
          /\ sweepLogged' = settle(~ok).logged
     ELSE UNCHANGED <<sweepPc, sweepOutcome, sweepLogged>>
  /\ UNCHANGED <<sweepFetched, sweepNow, sweepIssued>>
  /\ UNCHANGED <<now, strokes, nextPhoto, cvPhotos, recentPhotos,
                 canvasViewVars, xvMine, xvPartner, lvMine, lvPartner,
                 lvSawMine>>
  /\ UNCHANGED <<subVars, chatVars, syncVars>>

\* The record a stable descending sort by timestamp puts first: the
\* greatest timestamp, among equals the smallest key.
newest(S) ==
  CHOOSE p \in S : \A q \in S :
    q.timestamp < p.timestamp \/ (q.timestamp = p.timestamp /\ q.id >= p.id)

\* The record with the smallest key.
firstKey(S) == CHOOSE p \in S : \A q \in S : q.id >= p.id

RECURSIVE sortDesc(_)
\* .sort((a, b) => b.timestamp - a.timestamp) of the entries in key order.
sortDesc(S) ==
  IF S = {} THEN << >> ELSE <<newest(S)>> \o sortDesc(S \ {newest(S)})

RECURSIVE values(_)
\* Object.values(val): the children in key order.
values(S) ==
  IF S = {} THEN << >> ELSE <<firstKey(S)>> \o values(S \ {firstKey(S)})

\* DailyPhotos.transformPhotos (couple-scoped): [] for null, else the
\* entries sorted by timestamp, newest first.
transformPhotos(couple) == sortDesc(couple)

SelectTimestampAfter(list, t) == SelectSeq(list, LAMBDA p : p.timestamp > t)

\* DailyPhotos.recentPhotos: photos.filter(p => p.timestamp > oneDayAgo),
\* computed when photos changes.
recentPhotosMemo(photos, t) == SelectTimestampAfter(photos, t - OneDay)

\* The data callback of the couple-scoped DailyPhotos query and the render
\* that follows it, which recomputes recentPhotos.
CoupleSnapshot ==
  /\ cvDirty
  /\ cvDirty' = FALSE
  /\ cvPhotos' = transformPhotos(couplePhotos)
  /\ recentPhotos' = recentPhotosMemo(cvPhotos', now)
  /\ UNCHANGED <<storeVars, sweepVars, canvasViewVars, exchangeViewVars>>
  /\ UNCHANGED <<subVars, chatVars, syncVars>>

\* DailyPhotos.handlePhotoCapture of user u (couple-scoped): push() a key
\* and set the photo with timestamp Date.now().
CoupleUpload(u) ==
  /\ nextPhoto <= FirstUpload + MaxUploads - 1
  /\ couplePhotos' = couplePhotos \cup
                       {[id |-> nextPhoto, uid |-> u, timestamp |-> now]}
  /\ nextPhoto' = nextPhoto + 1
  /\ cvDirty' = TRUE
  /\ UNCHANGED <<now, flatPhotos, strokes, cvPhotos, recentPhotos>>
  /\ UNCHANGED <<sweepVars, canvasViewVars, exchangeViewVars>>
  /\ UNCHANGED <<subVars, chatVars, syncVars>>

\* DailyPhotos.handleDelete(photoId, photoUserId) by user u (couple-scoped):
\* refused unless photoUserId is the caller, else the photo is removed.
CoupleDelete(u, p) ==
  /\ p \in couplePhotos
  /\ p.uid = u
  /\ couplePhotos' = couplePhotos \ {p}
  /\ cvDirty' = TRUE
  /\ UNCHANGED <<now, flatPhotos, strokes, nextPhoto, cvPhotos, recentPhotos>>
  /\ UNCHANGED <<sweepVars, canvasViewVars, exchangeViewVars>>
  /\ UNCHANGED <<subVars, chatVars, syncVars>>

\* OptimizedCanvas.transformStrokes: val ? Object.values(val) : [].
transformStrokes(val) == values(val)

\* The data callback of the OptimizedCanvas query; the effect copies
\* remoteStrokes into lines.
CanvasSnapshot ==
  /\ canvasDirty
  /\ canvasDirty' = FALSE
  /\ remoteStrokes' = transformStrokes(strokes)
  /\ UNCHANGED <<storeVars, sweepVars, coupleViewVars, exchangeViewVars>>
  /\ UNCHANGED <<subVars, chatVars, syncVars>>

\* handleUpload of the photo-exchange DailyPhotos of user u: push() a key
\* under dailyPhotos and set {uid, photoURL, timestamp: Date.now()}.  The
\* local user sees the upload control only while myPhoto is null.
FlatUpload(u) ==
  /\ nextPhoto <= FirstUpload + MaxUploads - 1
  /\ u = "me" => (xvMine = NoPhoto \/ lvMine = NoPhoto)
  /\ flatPhotos' = flatPhotos \cup
                     {[id |-> nextPhoto, uid |-> u, timestamp |-> now]}
  /\ nextPhoto' = nextPhoto + 1
  /\ xvDirty' = TRUE
  /\ lvDirty' = TRUE
  /\ UNCHANGED <<now, couplePhotos, strokes>>
  /\ UNCHANGED <<xvMine, xvPartner, lvMine, lvPartner, lvSawMine>>
  /\ UNCHANGED <<sweepVars, coupleViewVars, canvasViewVars>>
  /\ UNCHANGED <<subVars, chatVars, syncVars>>

Mine(flat) == {p \in flat : p.uid = "me"}
Theirs(flat) == {p \in flat : p.uid # "me"}

\* entries.find(...) of the photo-exchange snapshot handler: the first
\* matching child in key order, or null.
find(S) == IF S = {} THEN NoPhoto ELSE firstKey(S)

exchangeExpired_strict(mine, partner, t) ==
  /\ mine # NoPhoto
  /\ partner # NoPhoto
  /\ (IF mine.timestamp > partner.timestamp
      THEN mine.timestamp ELSE partner.timestamp) + OneDay - t < 0

\* The photo-exchange snapshot handler: when both photos exist and
\* expiresAt - Date.now() <= 0 it removes both.
exchangeExpired(mine, partner, t) ==
  /\ mine # NoPhoto
  /\ partner # NoPhoto
  /\ (IF mine.timestamp > partner.timestamp
      THEN mine.timestamp ELSE partner.timestamp) + OneDay - t <= 0

\* The snapshot handler of the photo-exchange DailyPhotos (DailyPhotos.js).
ExchangeSnapshot ==
  /\ xvDirty
  /\ xvMine' = find(Mine(flatPhotos))
  /\ xvPartner' = find(Theirs(flatPhotos))
  /\ IF exchangeExpired(xvMine', xvPartner', now)
     THEN /\ flatPhotos' = removeFlat(removeFlat(flatPhotos, xvMine'.id),
                                      xvPartner'.id)
          /\ xvDirty' = TRUE
          /\ lvDirty' = TRUE
     ELSE /\ xvDirty' = FALSE
          /\ UNCHANGED <<flatPhotos, lvDirty>>
  /\ UNCHANGED <<now, couplePhotos, strokes, nextPhoto>>
  /\ UNCHANGED <<lvMine, lvPartner, lvSawMine>>
  /\ UNCHANGED <<sweepVars, coupleViewVars, canvasViewVars>>
  /\ UNCHANGED <<subVars, chatVars, syncVars>>

\* The latest photo of a set, or null.
latest(S) == IF S = {} THEN NoPhoto ELSE newest(S)

\* The snapshot handler of the photo-exchange DailyPhotos of Loading.js:
\* partnerPhoto is set or reset, myPhoto is only ever set.
LoadingSnapshot ==
  /\ lvDirty
  /\ lvDirty' = FALSE
  /\ lvPartner' = latest(Theirs(flatPhotos))
  /\ lvMine' = IF Mine(flatPhotos) # {} THEN latest(Mine(flatPhotos)) ELSE lvMine
  /\ lvSawMine' = (Mine(flatPhotos) # {})
  /\ UNCHANGED <<storeVars, xvMine, xvPartner, xvDirty>>
  /\ UNCHANGED <<sweepVars, coupleViewVars, canvasViewVars>>
  /\ UNCHANGED <<subVars, chatVars, syncVars>>

\* The records a database used before the start may hold: at most one flat
\* photo and one couple-scoped photo per user, and one stroke.
InitFlat ==
  {S \in SUBSET {[id |-> i, uid |-> (IF i = 1 THEN "me" ELSE "partner"),
                  timestamp |-> t] : i \in {1, 2}, t \in InitTimes} :
     \A p, q \in S : p.id = q.id => p = q}

InitCouple ==
  {S \in SUBSET {[id |-> i, uid |-> (IF i = 3 THEN "me" ELSE "partner"),
                  timestamp |-> t] : i \in {3, 4}, t \in InitTimes} :
     \A p, q \in S : p.id = q.id => p = q}

InitStrokes ==
  {S \in SUBSET {[id |-> 1, timestamp |-> t] : t \in InitTimes} :
     Cardinality(S) <= 1}

InitViews ==
  /\ sweepPc = "idle"
  /\ sweepFetched = {}
  /\ sweepNow = 0
  /\ sweepIssued = {}
  /\ sweepPending = {}
  /\ sweepOutcome = "none"
  /\ sweepLogged = FALSE
  /\ cvPhotos = NullPhotos
  /\ recentPhotos = << >>
  /\ cvDirty = TRUE
  /\ remoteStrokes = NullStrokes
  /\ canvasDirty = TRUE
  /\ xvMine = NoPhoto
  /\ xvPartner = NoPhoto
  /\ xvDirty = TRUE
  /\ lvMine = NoPhoto
  /\ lvPartner = NoPhoto
  /\ lvSawMine = FALSE
  /\ lvDirty = TRUE

\* A fresh database.
InitPhotosEmpty ==
  /\ now = StartNow
  /\ flatPhotos = {}
  /\ couplePhotos = {}
  /\ strokes = {}
  /\ nextPhoto = FirstUpload
  /\ InitViews

\* A database that was used before the start.
InitPhotos ==
  /\ now = StartNow
  /\ flatPhotos \in InitFlat
  /\ couplePhotos \in InitCouple
  /\ strokes \in InitStrokes
  /\ nextPhoto = FirstUpload
  /\ InitViews

NextSweep ==
  \/ Tick
  \/ SweepStart
  \/ SweepFetchFailed
  \/ SweepFetched
  \/ \E key \in sweepPending, ok \in BOOLEAN : RemoveDone(key, ok)
  \/ CoupleSnapshot
  \/ \E u \in Users, p \in couplePhotos : CoupleDelete(u, p)
  \/ CanvasSnapshot

NextReveal ==
  \/ \E u \in Users : CoupleUpload(u)
  \/ \E u \in Users, p \in couplePhotos : CoupleDelete(u, p)
  \/ CoupleSnapshot
  \/ \E u \in Users : FlatUpload(u)
  \/ ExchangeSnapshot
  \/ LoadingSnapshot

NextExchange ==
  \/ Tick
  \/ \E u \in Users : FlatUpload(u)
  \/ ExchangeSnapshot

\* ------------------------------------------------- optimistic updates
Keys == {"k1", "k2"}          \* keys passed to performUpdate
OptimisticData == {1, 2}      \* optimisticData values
Errors == {"e1", "e2"}        \* errors updateFn may raise
NoEntry == 0                  \* the Map has no entry for the key
IdleCall ==
  [key |-> "k1", state |-> "Idle", invoked |-> 0, raised |-> "none",
   outcome |-> "none"]

setEntry_replaces(map, key, data) ==
  [k \in Keys |-> IF k = key THEN data ELSE NoEntry]

\* new Map(prev).set(key, optimisticData)
setEntry(map, key, data) == [map EXCEPT ![key] = data]

deleteEntry_keeps(map, key) == map

\* next = new Map(prev); next.delete(key)
deleteEntry(map, key) == [map EXCEPT ![key] = NoEntry]

\* throw error: the promise of performUpdate rejects with the caught error.
rethrow(error) == error

\* performUpdate(key, optimisticData, updateFn) up to its await: the
\* optimistic entry is stored and updateFn is invoked.
PerformUpdate(i, key, data) ==
  /\ calls[i].state = "Idle"
  /\ \A j \in 1..(i - 1) : calls[j].state # "Idle"
  /\ pending' = setEntry(pending, key, data)
  /\ calls' = [calls EXCEPT ![i] = [key |-> key, state |-> "Optimistic",
                                    invoked |-> calls[i].invoked + 1,
                                    raised |-> "none", outcome |-> "none"]]
  /\ UNCHANGED exceptOpt

\* updateFn of call i resolves: the entry of the key is deleted.
UpdateResolved(i) ==
  /\ calls[i].state = "Optimistic"
  /\ pending' = deleteEntry(pending, calls[i].key)
  /\ calls' = [calls EXCEPT ![i].state = "Committed",
                            ![i].outcome = "resolved"]
  /\ UNCHANGED exceptOpt

\* updateFn of call i rejects with error e: the entry of the key is deleted
\* and the error is thrown again.
UpdateRejected(i, e) ==
  /\ calls[i].state = "Optimistic"
  /\ pending' = deleteEntry(pending, calls[i].key)
  /\ calls' = [calls EXCEPT ![i].state = "RolledBack",
                            ![i].raised = e,
                            ![i].outcome = rethrow(e)]
  /\ UNCHANGED exceptOpt

InitOpt ==
  /\ pending = [k \in Keys |-> NoEntry]
  /\ calls = [i \in 1..MaxCalls |-> IdleCall]

NextOpt ==
  \/ \E i \in 1..MaxCalls, key \in Keys, data \in OptimisticData :
       PerformUpdate(i, key, data)
  \/ \E i \in 1..MaxCalls : UpdateResolved(i)
  \/ \E i \in 1..MaxCalls, e \in Errors : UpdateRejected(i, e)

\* ---------------------------------------------------------------- presence
NoPresence == [online |-> FALSE, lastSeen |-> 0]   \* presence/{userId} unset

\* {online: true, lastSeen: serverTimestamp()} as the backend stores it.
presenceData(t) == [online |-> TRUE, lastSeen |-> t]

\* {online: false, lastSeen: serverTimestamp()} as the backend stores it.
offlineData(t) == [online |-> FALSE, lastSeen |-> t]

\* The requests the .info/connected callback sends, in program order.
onConnected == <<"setOnline", "onDisconnect">>

\* usePresence is mounted with a user id: onValue(connectedRef, ...) is
\* registered and fires with the current value.
PresMount ==
  /\ ~presMounted
  /\ presEvents < MaxPresEvents
  /\ presEvents' = presEvents + 1
  /\ presMounted' = TRUE
  /\ infoDirty' = connected
  /\ UNCHANGED <<connected, wire, presence, armed, srvClock, onlineSet,
                 dropSeen>>
  /\ UNCHANGED exceptPres

\* The client (re)connects; .info/connected becomes true.
Connect ==
  /\ ~connected
  /\ presEvents < MaxPresEvents
  /\ presEvents' = presEvents + 1
  /\ connected' = TRUE
  /\ infoDirty' = presMounted
  /\ onlineSet' = FALSE
  /\ dropSeen' = FALSE
  /\ UNCHANGED <<presMounted, wire, presence, armed, srvClock>>
  /\ UNCHANGED exceptPres

\* The .info/connected callback with snapshot.val() === true: set online,
\* then register the onDisconnect write.
ConnectedCallback ==
  /\ presMounted
  /\ connected
  /\ infoDirty
  /\ infoDirty' = FALSE
  /\ wire' = wire \o onConnected
  /\ UNCHANGED <<presMounted, connected, presence, armed, srvClock,
                 onlineSet, dropSeen, presEvents>>
  /\ UNCHANGED exceptPres

\* The effect cleanup of usePresence: set offline, unsubscribe.  The
\* registered onDisconnect write is not cancelled.
PresUnmount ==
  /\ presMounted
  /\ presMounted' = FALSE
  /\ infoDirty' = FALSE
  /\ wire' = IF connected THEN Append(wire, "setOffline") ELSE wire
  /\ UNCHANGED <<connected, presence, armed, srvClock, onlineSet, dropSeen,
                 presEvents>>
  /\ UNCHANGED exceptPres

\* The backend handles the oldest request of the connection.
BackendReceive ==
  /\ connected
  /\ wire # << >>
  /\ wire' = Tail(wire)
  /\ srvClock' = srvClock + 1
  /\ presence' = CASE Head(wire) = "setOnline" -> presenceData(srvClock')
                    [] Head(wire) = "setOffline" -> offlineData(srvClock')
                    [] OTHER -> presence
  /\ armed' = (armed \/ Head(wire) = "onDisconnect")
  /\ onlineSet' = (onlineSet \/ Head(wire) = "setOnline")
  /\ UNCHANGED <<presMounted, connected, infoDirty, dropSeen, presEvents>>
  /\ UNCHANGED exceptPres

\* The connection is lost without any teardown: the requests still on
\* their way are lost, the client runs no more code, and the backend runs
\* the onDisconnect write if one is registered.
Drop ==
  /\ connected
  /\ connected' = FALSE
  /\ presMounted' = FALSE
  /\ infoDirty' = FALSE
  /\ wire' = << >>
  /\ srvClock' = srvClock + 1
  /\ presence' = IF armed THEN offlineData(srvClock') ELSE presence
  /\ armed' = FALSE
  /\ dropSeen' = TRUE
  /\ UNCHANGED <<onlineSet, presEvents>>
  /\ UNCHANGED exceptPres

InitPres ==
  /\ presMounted = FALSE
  /\ connected = FALSE
  /\ infoDirty = FALSE
  /\ wire = << >>
  /\ presence = NoPresence
  /\ armed = FALSE
  /\ srvClock = 0
  /\ onlineSet = FALSE
  /\ dropSeen = FALSE
  /\ presEvents = 0

NextPres ==
  \/ PresMount
  \/ Connect
  \/ ConnectedCallback
  \/ PresUnmount
  \/ BackendReceive
  \/ Drop

\* ------------------------------------------------------------------ timers
clearTimeout_noop(timers, id) == timers

\* clearTimeout(id): the timer with this id, if still pending, is dropped.
clearTimeout(timers, id) == {h \in timers : h.id # id}

\* setTimeout(fn, wait) called at time t, returning the handle id.
setTimeout(timers, id, t, wait) == timers \cup {[id |-> id, due |-> t + wait]}

\* The timers whose wait has elapsed at time t.
Due(timers, t) == {h \in timers : h.due <= t}

\* ------------------------------------------------------- typing handler
\* handleTyping: setTyping(true) writes the flag, the pending timer is
\* cleared and a new one is armed for 3 s later.
HandleTyping ==
  /\ typMounted
  /\ keystrokes < MaxKeystrokes
  /\ keystrokes' = keystrokes + 1
  /\ typFlag' = TRUE
  /\ typTimers' = setTimeout(clearTimeout(typTimers, typRef), keystrokes',
                             typNow, TypingDelay)
  /\ typRef' = keystrokes'
  /\ lastTyping' = typNow
  /\ typLast' = "handleTyping"
  /\ UNCHANGED <<typMounted, typNow>>
  /\ UNCHANGED exceptTyp

\* The timer armed by handleTyping fires: setTyping(false) removes the flag.
TypingTimerFires(h) ==
  /\ h \in Due(typTimers, typNow)
  /\ typTimers' = typTimers \ {h}
  /\ typFlag' = FALSE
  /\ typLast' = "timer"
  /\ UNCHANGED <<typMounted, typRef, typNow, lastTyping, keystrokes>>
  /\ UNCHANGED exceptTyp

\* stopTyping: the pending timer is cleared and setTyping(false) removes the
\* flag.
StopTyping ==
  /\ typMounted
  /\ typTimers' = clearTimeout(typTimers, typRef)
  /\ typFlag' = FALSE
  /\ lastTyping' = -1
  /\ typLast' = "stopTyping"
  /\ UNCHANGED <<typMounted, typRef, typNow, keystrokes>>
  /\ UNCHANGED exceptTyp

\* The effect cleanup of useTypingHandler: as stopTyping.
TypUnmount ==
  /\ typMounted
  /\ typMounted' = FALSE
  /\ typTimers' = clearTimeout(typTimers, typRef)
  /\ typFlag' = FALSE
  /\ lastTyping' = -1
  /\ typLast' = "unmount"
  /\ UNCHANGED <<typRef, typNow, keystrokes>>
  /\ UNCHANGED exceptTyp

\* The component is mounted again; timeoutRef starts as null.
TypMount ==
  /\ ~typMounted
  /\ typMounted' = TRUE
  /\ typRef' = 0
  /\ typLast' = "mount"
  /\ UNCHANGED <<typFlag, typTimers, typNow, lastTyping, keystrokes>>
  /\ UNCHANGED exceptTyp

\* One second passes; a timer that is due fires before the clock moves on.
TypTick ==
  /\ typNow < MaxTypNow
  /\ Due(typTimers, typNow) = {}
  /\ typNow' = typNow + 1
  /\ typLast' = "tick"
  /\ UNCHANGED <<typMounted, typFlag, typTimers, typRef, lastTyping,
                 keystrokes>>
  /\ UNCHANGED exceptTyp

InitTyp ==
  /\ typMounted = TRUE
  /\ typFlag = FALSE
  /\ typTimers = {}
  /\ typRef = 0
  /\ typNow = 0
  /\ typLast = "mount"
  /\ lastTyping = -1
  /\ keystrokes = 0

NextTyp ==
  \/ HandleTyping
  \/ \E h \in typTimers : TypingTimerFires(h)
  \/ StopTyping
  \/ TypUnmount
  \/ TypMount
  \/ TypTick

\* -------------------------------------------------- reactions and deletes
Colls == {"chat", "app"}     \* messages/{coupleId} (ChatRoom), messages (App)
Emojis == {"heart", "laugh"}
NoReaction == [coll |-> "none", msg |-> 0, uid |-> "none", emoji |-> "none",
               count |-> 0]
NoDelete == [kind |-> "none", author |-> "none", caller |-> "none",
             issued |-> FALSE]

\* set(ref(database, `.../${uid}`), emoji) on a map keyed by user id.
setReaction(reactions, uid, emoji) ==
  {r \in reactions : r.uid # uid} \cup {[uid |-> uid, emoji |-> emoji]}

\* remove(ref(database, `.../${uid}`)) on a map keyed by user id.
removeReaction(reactions, uid) == {r \in reactions : r.uid # uid}

\* message.reactions?.[userId] === emoji
hasReaction(message, uid, emoji) ==
  [uid |-> uid, emoji |-> emoji] \in message.reactions

\* A message is pushed to a collection with no reactions.
RxSend(coll, u) ==
  /\ rxNext <= MaxRxMsgs
  /\ rxStore' = [rxStore EXCEPT ![coll] =
                   @ \cup {[id |-> rxNext, userId |-> u, reactions |-> {}]}]
  /\ rxNext' = rxNext + 1
  /\ rxDirty' = [rxDirty EXCEPT ![coll] = TRUE]
  /\ rxLast' = NoReaction
  /\ UNCHANGED <<rxRoot, rxView, delLast>>
  /\ UNCHANGED exceptRx

\* ChatMessage.handleReaction(emoji) of user u on a message of the chat
\* collection: the reaction is set (or, if the message already shows it,
\* removed) at reactions/{message.id}/{userId}.
ChatMessageReaction(u, m, emoji) ==
  /\ m \in rxStore["chat"]
  /\ rxRoot' = IF hasReaction(m, u, emoji)
               THEN {r \in rxRoot : ~(r.msg = m.id /\ r.uid = u)}
               ELSE {r \in rxRoot : ~(r.msg = m.id /\ r.uid = u)}
                      \cup {[msg |-> m.id, uid |-> u, emoji |-> emoji]}
  /\ rxLast' = IF hasReaction(m, u, emoji) THEN NoReaction
               ELSE [coll |-> "chat", msg |-> m.id, uid |-> u,
                     emoji |-> emoji, count |-> Cardinality(rxStore["chat"])]
  /\ UNCHANGED <<rxStore, rxView, rxDirty, rxNext, delLast>>
  /\ UNCHANGED exceptRx

\* App.addReaction(messageId, emoji) of user u: the emoji is set at
\* messages/{messageId}/reactions/{uid}.
AddReaction(u, m, emoji) ==
  /\ m \in rxStore["app"]
  /\ rxStore' = [rxStore EXCEPT !["app"] = (@ \ {m}) \cup
                   {[m EXCEPT !.reactions = setReaction(@, u, emoji)]}]
  /\ rxDirty' = [rxDirty EXCEPT !["app"] = TRUE]
  /\ rxLast' = [coll |-> "app", msg |-> m.id, uid |-> u, emoji |-> emoji,
                count |-> Cardinality(rxStore["app"])]
  /\ UNCHANGED <<rxRoot, rxView, rxNext, delLast>>
  /\ UNCHANGED exceptRx

\* The local user's listener on a collection delivers its snapshot.
RxSnapshot(coll) ==
  /\ rxDirty[coll]
  /\ rxDirty' = [rxDirty EXCEPT ![coll] = FALSE]
  /\ rxView' = [rxView EXCEPT ![coll] = rxStore[coll]]
  /\ UNCHANGED <<rxStore, rxRoot, rxNext, rxLast, delLast>>
  /\ UNCHANGED exceptRx

\* ChatRoom.handleDelete(messageId) called by user u: after the confirm
\* dialog the message is removed.
HandleDeleteMessage(u, m, confirm) ==
  /\ m \in rxStore["chat"]
  /\ delLast' = [kind |-> "message", author |-> m.userId, caller |-> u,
                 issued |-> confirm]
  /\ rxStore' = IF confirm THEN [rxStore EXCEPT !["chat"] = @ \ {m}]
                ELSE rxStore
  /\ rxDirty' = IF confirm THEN [rxDirty EXCEPT !["chat"] = TRUE] ELSE rxDirty
  /\ rxLast' = IF confirm THEN NoReaction ELSE rxLast
  /\ UNCHANGED <<rxRoot, rxView, rxNext>>
  /\ UNCHANGED exceptRx

\* DailyPhotos.handleDelete(photoId, photoUserId) called by user u: refused
\* unless photoUserId is the caller; after the confirm dialog the photo is
\* removed.
HandleDeletePhoto(u, p, confirm) ==
  /\ p \in couplePhotos
  /\ delLast' = [kind |-> "photo", author |-> p.uid, caller |-> u,
                 issued |-> (p.uid = u /\ confirm)]
  /\ couplePhotos' = IF delLast'.issued THEN couplePhotos \ {p}
                     ELSE couplePhotos
  /\ cvDirty' = (cvDirty \/ delLast'.issued)
  /\ UNCHANGED <<rxStore, rxRoot, rxView, rxDirty, rxNext, rxLast>>
  /\ UNCHANGED <<now, flatPhotos, strokes, nextPhoto, cvPhotos, recentPhotos>>
  /\ UNCHANGED <<sweepVars, canvasViewVars, exchangeViewVars>>
  /\ UNCHANGED <<subVars, chatVars>>
  /\ UNCHANGED exceptRxAndCore

InitRx ==
  /\ rxStore = [c \in Colls |-> {}]
  /\ rxRoot = {}
  /\ rxView = [c \in Colls |-> {}]
  /\ rxDirty = [c \in Colls |-> TRUE]
  /\ rxNext = 1
  /\ rxLast = NoReaction
  /\ delLast = NoDelete

NextRx ==
  \/ \E c \in Colls, u \in Users : RxSend(c, u)
  \/ \E u \in Users, m \in rxStore["chat"], e \in Emojis :
       ChatMessageReaction(u, m, e)
  \/ \E u \in Users, m \in rxStore["app"], e \in Emojis : AddReaction(u, m, e)
  \/ \E c \in Colls : RxSnapshot(c)

NextOwner ==
  \/ \E u \in Users : RxSend("chat", u)
  \/ RxSnapshot("chat")
  \/ \E u \in Users, m \in rxStore["chat"], c \in BOOLEAN :
       HandleDeleteMessage(u, m, c)
  \/ \E u \in Users : CoupleUpload(u)
  \/ CoupleSnapshot
  \/ \E u \in Users, p \in couplePhotos, c \in BOOLEAN :
       HandleDeletePhoto(u, p, c)

\* ----------------------------------------- batched upload of the canvas
Items == 1..MaxItems

\* One more call issued for every element of S.
countCalls(issued, S) == [i \in DOMAIN issued |->
                           IF i \in S THEN issued[i] + 1 ELSE issued[i]]

\* OptimizedCanvas.handleMouseUp: the finished stroke is pushed to
\* batchRef.current and scheduleUpload (a debounce of uploadBatch) clears
\* its pending timer and arms a new one.
HandleMouseUp ==
  /\ upMounted
  /\ upNext <= MaxItems
  /\ upNext' = upNext + 1
  /\ upBatch' = upBatch \cup {upNext}
  /\ upTimers' = setTimeout(clearTimeout(upTimers, upRef), upNext, 0,
                            UploadWait)
  /\ upRef' = upNext
  /\ UNCHANGED <<upMounted, upInflight, upIssued, upFailed, upLate>>
  /\ UNCHANGED exceptUp

\* The timer of scheduleUpload fires and uploadBatch runs: it returns on an
\* empty batch, else copies the batch, empties batchRef.current and issues
\* one set() per stroke of the copy.
UploadBatch(h) ==
  /\ h \in upTimers
  /\ upTimers' = upTimers \ {h}
  /\ upBatch' = {}
  /\ upInflight' = upInflight \cup upBatch
  /\ upIssued' = countCalls(upIssued, upBatch)
  /\ upLate' = (upLate \/ ~upMounted)
  /\ UNCHANGED <<upMounted, upRef, upFailed, upNext>>
  /\ UNCHANGED exceptUp

\* A set() of uploadBatch settles; a rejection is logged by the catch.
UploadSettled(item, ok) ==
  /\ item \in upInflight
  /\ upInflight' = upInflight \ {item}
  /\ upFailed' = IF ok THEN upFailed ELSE upFailed \cup {item}
  /\ UNCHANGED <<upMounted, upBatch, upTimers, upRef, upIssued, upNext,
                 upLate>>
  /\ UNCHANGED exceptUp

\* OptimizedCanvas is unmounted; it has no cleanup for scheduleUpload.
CanvasUnmount ==
  /\ upMounted
  /\ upMounted' = FALSE
  /\ UNCHANGED <<upBatch, upTimers, upRef, upInflight, upIssued, upFailed,
                 upNext, upLate>>
  /\ UNCHANGED exceptUp

InitUp ==
  /\ upMounted = TRUE
  /\ upBatch = {}
  /\ upTimers = {}
  /\ upRef = 0
  /\ upInflight = {}
  /\ upIssued = [i \in Items |-> 0]
  /\ upFailed = {}
  /\ upNext = 1
  /\ upLate = FALSE

NextUp ==
  \/ HandleMouseUp
  \/ \E h \in upTimers : UploadBatch(h)
  \/ \E item \in upInflight, ok \in BOOLEAN : UploadSettled(item, ok)
  \/ CanvasUnmount

\* ------------------------------------------------------ useBatchedWrites
\* The effect of useBatchedWrites run after a state change: the cleanup
\* clears the timer of the previous run; a new timer is armed unless the
\* queue is empty or a flush is processing.
effectArms(q, proc) == q # {} /\ ~proc

effectTimers(timers, ref, id, q, proc) ==
  IF effectArms(q, proc)
  THEN setTimeout(clearTimeout(timers, ref), id, 0, WriteDelay)
  ELSE clearTimeout(timers, ref)

\* Timer ids of useBatchedWrites: one per effect run that arms.
bwTimerId == bwRef + 1

\* addToQueue(operation): the operation is appended and the effect re-runs.
AddToQueue ==
  /\ bwMounted
  /\ bwNext <= MaxItems
  /\ bwNext' = bwNext + 1
  /\ queue' = queue \cup {bwNext}
  /\ bwTimers' = effectTimers(bwTimers, bwRef, bwTimerId, queue', processing)
  /\ bwRef' = IF effectArms(queue', processing) THEN bwTimerId ELSE bwRef
  /\ bwCaptured' = IF effectArms(queue', processing) THEN queue'
                   ELSE bwCaptured
  /\ UNCHANGED <<bwMounted, processing, bwFlush, bwAwaiting, bwInflight,
                 bwIssued, bwFailed>>
  /\ UNCHANGED exceptBw

\* The timer fires: setProcessing(true) and Promise.all(queue.map(op =>
\* op())) over the queue the effect captured.
FlushQueue(h) ==
  /\ h \in bwTimers
  /\ bwFlush < MaxFlushes
  /\ bwFlush' = bwFlush + 1
  /\ bwTimers' = bwTimers \ {h}
  /\ processing' = TRUE
  /\ bwAwaiting' = TRUE
  /\ bwInflight' = bwInflight \cup
                     {[op |-> o, flush |-> bwFlush'] : o \in bwCaptured}
  /\ bwIssued' = countCalls(bwIssued, bwCaptured)
  /\ bwFailed' = bwFailed \ bwCaptured
  /\ UNCHANGED <<bwMounted, queue, bwRef, bwCaptured, bwNext>>
  /\ UNCHANGED exceptBw

\* An operation of a flush settles.  Promise.all rejects at the first
\* rejection: the catch logs it and finally sets processing to false, the
\* queue staying as it is.  It resolves when the last operation has
\* resolved: setQueue([]), then processing is set to false.  Either way
\* the effect re-runs if the component is still mounted.
OperationSettled(w, ok) ==
  /\ w \in bwInflight
  /\ bwInflight' = bwInflight \ {w}
  /\ bwFailed' = IF ok THEN bwFailed ELSE bwFailed \cup {w.op}
  /\ LET current == bwAwaiting /\ w.flush = bwFlush
         rest == {x \in bwInflight' : x.flush = bwFlush}
         rejects == current /\ ~ok
         resolves == current /\ ok /\ rest = {}
         settles == (rejects \/ resolves) /\ bwMounted
     IN /\ bwAwaiting' = (bwAwaiting /\ ~rejects /\ ~resolves)
        /\ queue' = IF resolves /\ bwMounted THEN {} ELSE queue
        /\ processing' = IF settles THEN FALSE ELSE processing
        /\ bwTimers' = IF settles
                       THEN effectTimers(bwTimers, bwRef, bwTimerId, queue',
                                         FALSE)
                       ELSE bwTimers
        /\ bwRef' = IF settles /\ effectArms(queue', FALSE) THEN bwTimerId
                    ELSE bwRef
        /\ bwCaptured' = IF settles /\ effectArms(queue', FALSE) THEN queue'
                         ELSE bwCaptured
  /\ UNCHANGED <<bwMounted, bwFlush, bwIssued, bwNext>>
  /\ UNCHANGED exceptBw

\* The component is unmounted: the effect cleanup clears the timer.
BwUnmount ==
  /\ bwMounted
  /\ bwMounted' = FALSE
  /\ bwTimers' = clearTimeout(bwTimers, bwRef)
  /\ UNCHANGED <<queue, processing, bwRef, bwCaptured, bwFlush, bwAwaiting,
                 bwInflight, bwIssued, bwFailed, bwNext>>
  /\ UNCHANGED exceptBw

InitBw ==
  /\ bwMounted = TRUE
  /\ queue = {}
  /\ processing = FALSE
  /\ bwTimers = {}
  /\ bwRef = 0
  /\ bwCaptured = {}
  /\ bwFlush = 0
  /\ bwAwaiting = FALSE
  /\ bwInflight = {}
  /\ bwIssued = [i \in Items |-> 0]
  /\ bwFailed = {}
  /\ bwNext = 1

NextBw ==
  \/ AddToQueue
  \/ \E h \in bwTimers : FlushQueue(h)
  \/ \E w \in bwInflight, ok \in BOOLEAN : OperationSettled(w, ok)
  \/ BwUnmount

\* ----------------------------------------------------- useDebouncedWrite
DwPaths == {"d1", "d2"}      \* paths passed to debouncedWrite

\* debouncedWrite(path, data): the write is recorded in pendingWrites, the
\* pending timer is cleared and a new one is armed.
DebouncedWrite(path) ==
  /\ dwMounted
  /\ dwCalls < MaxItems
  /\ dwCalls' = dwCalls + 1
  /\ dwPending' = dwPending \cup {path}
  /\ dwRequested' = countCalls(dwRequested, {path})
  /\ dwTimers' = setTimeout(clearTimeout(dwTimers, dwRef), dwCalls', 0,
                            WriteDelay)
  /\ dwRef' = dwCalls'
  /\ UNCHANGED <<dwMounted, dwInflight, dwIssued>>
  /\ UNCHANGED exceptDw

\* The timer fires: the pending writes are copied, pendingWrites is cleared
\* and one set() per recorded path is issued.
DebounceFires(h) ==
  /\ h \in dwTimers
  /\ dwTimers' = dwTimers \ {h}
  /\ dwPending' = {}
  /\ dwInflight' = dwInflight \cup dwPending
  /\ dwIssued' = countCalls(dwIssued, dwPending)
  /\ UNCHANGED <<dwMounted, dwRef, dwRequested, dwCalls>>
  /\ UNCHANGED exceptDw

\* A set() of the debounced flush settles; a rejection is logged.
DebouncedSettled(path, ok) ==
  /\ path \in dwInflight
  /\ dwInflight' = dwInflight \ {path}
  /\ UNCHANGED <<dwMounted, dwPending, dwTimers, dwRef, dwRequested,
                 dwIssued, dwCalls>>
  /\ UNCHANGED exceptDw

\* The component is unmounted: the cleanup clears timeoutRef.current.
DwUnmount ==
  /\ dwMounted
  /\ dwMounted' = FALSE
  /\ dwTimers' = clearTimeout(dwTimers, dwRef)
  /\ UNCHANGED <<dwPending, dwRef, dwInflight, dwRequested, dwIssued,
                 dwCalls>>
  /\ UNCHANGED exceptDw

InitDw ==
  /\ dwMounted = TRUE
  /\ dwPending = {}
  /\ dwTimers = {}
  /\ dwRef = 0
  /\ dwInflight = {}
  /\ dwRequested = [d \in DwPaths |-> 0]
  /\ dwIssued = [d \in DwPaths |-> 0]
  /\ dwCalls = 0

NextDw ==
  \/ \E path \in DwPaths : DebouncedWrite(path)
  \/ \E h \in dwTimers : DebounceFires(h)
  \/ \E path \in dwInflight, ok \in BOOLEAN : DebouncedSettled(path, ok)
  \/ DwUnmount

\* The batching writers side by side.
NextFlush == NextUp \/ NextBw

\* The writers whose flush can fail after the batch was taken.
NextWriters == NextBw \/ NextDw

\* The components that arm timers, up to their teardown.
NextTeardown ==
  \/ NextUp
  \/ NextDw
  \/ HandleTyping
  \/ TypUnmount

\* ----------------------------------------------- CoupleCanvas drawing
\* A set() or remove() that succeeded takes effect, a rejected one does not.
written(S, id, ok) == IF ok THEN S \cup {id} ELSE S
removed(S, id, ok) == IF ok THEN S \ {id} ELSE S

afterCommit_always(ok) == "removing"

\* stopDrawing after await set(canvas/strokes/{id}): the remove of the live
\* copy follows a success, the catch follows a rejection.
afterCommit(ok) == IF ok THEN "removing" ELSE "failed"

\* startDrawing: a new stroke is put in drawingRef and written to
\* canvas/live/{id}; the write is not awaited.
StartDrawing(ok) ==
  /\ drawNext <= MaxStrokes
  /\ drawNext' = drawNext + 1
  /\ isDrawing' = TRUE
  /\ drawingRef' = drawNext
  /\ drawPoints' = 1
  /\ live' = written(live, drawNext, ok)
  /\ tracked' = tracked \cup {drawNext}
  /\ liveOk' = written(liveOk, drawNext, ok)
  /\ UNCHANGED <<committed, stopping, clearing, commitFailed>>
  /\ UNCHANGED exceptDraw

\* draw: the stroke grows and its live copy is written again.
Draw(ok) ==
  /\ isDrawing
  /\ drawingRef # 0
  /\ drawPoints < MaxPoints
  /\ drawPoints' = drawPoints + 1
  /\ live' = written(live, drawingRef, ok)
  /\ liveOk' = IF drawingRef \in tracked
               THEN written(liveOk, drawingRef, ok) ELSE liveOk
  /\ UNCHANGED <<committed, drawingRef, isDrawing, stopping, clearing,
                 drawNext, tracked, commitFailed>>
  /\ UNCHANGED exceptDraw

\* stopDrawing up to its first await: set(canvas/strokes/{id}) is issued.
StopDrawing ==
  /\ isDrawing
  /\ drawingRef # 0
  /\ isDrawing' = FALSE
  /\ stopping' = stopping \cup {[id |-> drawingRef, phase |-> "committing"]}
  /\ UNCHANGED <<live, committed, drawingRef, drawPoints, clearing, drawNext,
                 tracked, liveOk, commitFailed>>
  /\ UNCHANGED exceptDraw

\* The committed write of a stopDrawing settles: on success the remove of
\* the live copy is issued, on failure the catch logs and drawingRef is
\* reset.
CommitSettled(c, ok) ==
  /\ c \in stopping
  /\ c.phase = "committing"
  /\ committed' = written(committed, c.id, ok)
  /\ commitFailed' = written(commitFailed, c.id, ~ok)
  /\ stopping' = IF afterCommit(ok) = "removing"
                 THEN (stopping \ {c}) \cup {[c EXCEPT !.phase = "removing"]}
                 ELSE stopping \ {c}
  /\ drawingRef' = IF afterCommit(ok) = "removing" THEN drawingRef ELSE 0
  /\ drawPoints' = IF afterCommit(ok) = "removing" THEN drawPoints ELSE 0
  /\ UNCHANGED <<live, isDrawing, clearing, drawNext, tracked, liveOk>>
  /\ UNCHANGED exceptDraw

\* The remove of the live copy settles; drawingRef is reset.
LiveRemoveSettled(c, ok) ==
  /\ c \in stopping
  /\ c.phase = "removing"
  /\ live' = removed(live, c.id, ok)
  /\ stopping' = stopping \ {c}
  /\ drawingRef' = 0
  /\ drawPoints' = 0
  /\ UNCHANGED <<committed, isDrawing, clearing, drawNext, tracked, liveOk,
                 commitFailed>>
  /\ UNCHANGED exceptDraw

\* handleClear: remove(canvas/strokes); a rejection ends the handler.
ClearStrokes(ok) ==
  /\ ~clearing
  /\ committed' = IF ok THEN {} ELSE committed
  /\ clearing' = ok
  /\ tracked' = {}
  /\ liveOk' = {}
  /\ UNCHANGED <<live, drawingRef, drawPoints, isDrawing, stopping, drawNext,
                 commitFailed>>
  /\ UNCHANGED exceptDraw

\* handleClear: remove(canvas/live).
ClearLive(ok) ==
  /\ clearing
  /\ live' = IF ok THEN {} ELSE live
  /\ clearing' = FALSE
  /\ tracked' = {}
  /\ liveOk' = {}
  /\ UNCHANGED <<committed, drawingRef, drawPoints, isDrawing, stopping,
                 drawNext, commitFailed>>
  /\ UNCHANGED exceptDraw

InitDraw ==
  /\ live = {}
  /\ committed = {}
  /\ drawingRef = 0
  /\ drawPoints = 0
  /\ isDrawing = FALSE
  /\ stopping = {}
  /\ clearing = FALSE
  /\ drawNext = 1
  /\ tracked = {}
  /\ liveOk = {}
  /\ commitFailed = {}

NextDraw ==
  \/ \E ok \in BOOLEAN : StartDrawing(ok)
  \/ \E ok \in BOOLEAN : Draw(ok)
  \/ StopDrawing
  \/ \E c \in stopping, ok \in BOOLEAN : CommitSettled(c, ok)
  \/ \E c \in stopping, ok \in BOOLEAN : LiveRemoveSettled(c, ok)
  \/ \E ok \in BOOLEAN : ClearStrokes(ok)
  \/ \E ok \in BOOLEAN : ClearLive(ok)

\* ------------------------------------------------ the sweep scheduler
clearInterval_noop(ids, id) == ids

\* clearInterval(id).
clearInterval(ids, id) == ids \ {id}

\* cleanupOldPhotos().catch(...): a call is started; it settles later.
startSweep(calls_, t) ==
  Append(calls_, [at |-> t, status |-> "running", settled |-> t])

RECURSIVE startSweeps(_, _, _)
startSweeps(calls_, t, n) ==
  IF n = 0 THEN calls_ ELSE startSweeps(startSweep(calls_, t), t, n - 1)

\* App mounts: the effect calls initCleanup, which runs one sweep now and
\* creates the hourly interval; the effect keeps the interval id.
AppMount ==
  /\ ~appMounted
  /\ appMounts < MaxAppMounts
  /\ appMounted' = TRUE
  /\ appMounts' = appMounts + 1
  /\ sweeps' = startSweep(sweeps, hours)
  /\ cleanupId' = appMounts + 1
  /\ intervals' = intervals \cup {appMounts + 1}
  /\ UNCHANGED hours
  /\ UNCHANGED exceptCl

\* An hour passes: every live interval calls cleanupOldPhotos.
HourPasses ==
  /\ hours < MaxHours
  /\ hours' = hours + 1
  /\ sweeps' = startSweeps(sweeps, hours + 1, Cardinality(intervals))
  /\ UNCHANGED <<appMounted, cleanupId, intervals, appMounts>>
  /\ UNCHANGED exceptCl

\* A cleanupOldPhotos call settles; a failure is logged inside the call.
SweepSettles(i, ok) ==
  /\ i \in 1..Len(sweeps)
  /\ sweeps[i].status = "running"
  /\ sweeps' = [sweeps EXCEPT ![i] =
                  [@ EXCEPT !.status = IF ok THEN "done" ELSE "failed",
                            !.settled = hours]]
  /\ UNCHANGED <<appMounted, cleanupId, intervals, hours, appMounts>>
  /\ UNCHANGED exceptCl

\* App unmounts: the cleanup of the effect clears the interval.
AppUnmount ==
  /\ appMounted
  /\ appMounted' = FALSE
  /\ intervals' = clearInterval(intervals, cleanupId)
  /\ cleanupId' = 0
  /\ UNCHANGED <<hours, sweeps, appMounts>>
  /\ UNCHANGED exceptCl

InitCl ==
  /\ appMounted = FALSE
  /\ cleanupId = 0
  /\ intervals = {}
  /\ hours = 0
  /\ sweeps = << >>
  /\ appMounts = 0

NextCl ==
  \/ AppMount
  \/ HourPasses
  \/ \E i \in 1..Len(sweeps), ok \in BOOLEAN : SweepSettles(i, ok)
  \/ AppUnmount

\* ------------------------------------ effect re-runs of the realtime hooks
\* setData(transform(snapshot.val())): null and a number are the same value
\* on every snapshot, an object or array is a new reference every time.
transformed(val, refs) ==
  [kind |-> val, ref |-> IF val = "object" THEN refs + 1 ELSE 0]

depsChanged_memoized(stable) == FALSE

\* The dependency array [path, transform] / [path, orderBy, limit,
\* transform, enabled] with path and options fixed: it differs from the
\* previous render's exactly when transform is a new function.
depsChanged(stable) == ~stable

\* The component mounts: first render, then the effect subscribes;
\* setLoading(true) leaves loading as it is.
RsMount(h, stable, val) ==
  /\ ~rsMounted
  /\ rsMounted' = TRUE
  /\ rsHook' = h
  /\ rsStable' = stable
  /\ rsVal' = val
  /\ rsSubs' = 1
  /\ rsPending' = TRUE
  /\ UNCHANGED <<rsData, rsLoading, rsRenderDue, rsRefs>>
  /\ UNCHANGED exceptRs

\* The data callback of the live subscription: setData(transform(val));
\* setError(null); setLoading(false).  A state that changed asks for a
\* render.
RsSnapshot ==
  /\ rsMounted
  /\ rsPending
  /\ rsPending' = FALSE
  /\ rsData' = transformed(rsVal, rsRefs)
  /\ rsRefs' = IF rsVal = "object" THEN rsRefs + 1 ELSE rsRefs
  /\ rsLoading' = FALSE
  /\ rsRenderDue' = (rsRenderDue \/ rsData' # rsData \/ rsLoading)
  /\ UNCHANGED <<rsMounted, rsHook, rsStable, rsVal, rsSubs>>
  /\ UNCHANGED exceptRs

\* The component renders again; when the dependencies changed the cleanup
\* of the effect runs and the effect subscribes again, with
\* setLoading(true).
RsRender ==
  /\ rsMounted
  /\ rsRenderDue
  /\ IF depsChanged(rsStable)
     THEN /\ rsSubs < MaxRsSubs
          /\ rsSubs' = rsSubs + 1
          /\ rsPending' = TRUE
          /\ rsLoading' = TRUE
          /\ rsRenderDue' = ~rsLoading
     ELSE /\ rsRenderDue' = FALSE
          /\ UNCHANGED <<rsSubs, rsPending, rsLoading>>
  /\ UNCHANGED <<rsMounted, rsHook, rsStable, rsVal, rsData, rsRefs>>
  /\ UNCHANGED exceptRs

InitRs ==
  /\ rsMounted = FALSE
  /\ rsHook = "data"
  /\ rsStable = TRUE
  /\ rsVal = "null"
  /\ rsData = [kind |-> "null", ref |-> 0]
  /\ rsLoading = TRUE
  /\ rsRenderDue = FALSE
  /\ rsPending = FALSE
  /\ rsSubs = 0
  /\ rsRefs = 0

NextRs ==
  \/ \E h \in {"data", "query"}, stable \in BOOLEAN,
        val \in {"null", "number", "object"} : RsMount(h, stable, val)
  \/ RsSnapshot
  \/ RsRender

\* ------------------------------------------ OptimizedCanvas line list
NoLine == [by |-> "none", n |-> 0, pts |-> 0]

\* [...prev.slice(0, -1), updatedLastLine]: the last line with one more
\* point.
appendPoint(ls) ==
  [ls EXCEPT ![Len(ls)] = [@ EXCEPT !.pts = @ + 1]]

\* The effect on remoteStrokes: if (remoteStrokes) setLines(remoteStrokes).
remoteEffect(ls, remote) == remote

\* handleMouseDown: isDrawing.current = true and a new line with one point
\* is appended.
LnMouseDown ==
  /\ lnMine < MaxLines
  /\ ~lnDrawing
  /\ lnMine' = lnMine + 1
  /\ lnDrawing' = TRUE
  /\ lnLines' = Append(lnLines, [by |-> "me", n |-> lnMine + 1, pts |-> 1])
  /\ lnOwn' = lnOwn \cup {lnMine + 1}
  /\ lnLast' = NoLine
  /\ UNCHANGED <<lnBatch, lnStore, lnDirty, lnTheirs>>
  /\ lnCleared' = FALSE
  /\ UNCHANGED exceptLn

\* handleMouseMove while drawing: the point goes to the last line of the
\* list, nothing happens on an empty list.
LnMouseMove ==
  /\ lnDrawing
  /\ lnLines # << >> => lnLines[Len(lnLines)].pts < MaxLinePoints
  /\ lnLines' = IF lnLines = << >> THEN lnLines ELSE appendPoint(lnLines)
  /\ lnLast' = IF lnLines = << >> THEN NoLine ELSE lnLines'[Len(lnLines)]
  /\ UNCHANGED <<lnDrawing, lnBatch, lnStore, lnDirty, lnOwn, lnMine,
                 lnTheirs>>
  /\ lnCleared' = FALSE
  /\ UNCHANGED exceptLn

\* handleMouseUp: the last line of the list, if it has more than one
\* point, is pushed to the batch and the upload is scheduled.
LnMouseUp ==
  /\ lnDrawing
  /\ lnDrawing' = FALSE
  /\ LET lastLine == IF lnLines = << >> THEN NoLine
                     ELSE lnLines[Len(lnLines)]
     IN /\ lnBatch' = IF lastLine.pts > 1 THEN lnBatch \cup {lastLine}
                      ELSE lnBatch
        /\ lnOwn' = {n \in lnOwn : \E b \in lnBatch' : b.by = "me" /\ b.n = n}
  /\ lnLast' = NoLine
  /\ UNCHANGED <<lnLines, lnStore, lnDirty, lnMine, lnTheirs>>
  /\ lnCleared' = FALSE
  /\ UNCHANGED exceptLn

RECURSIVE pushAll(_, _)
\* push() and set() of every stroke of the batch, in the order of the batch.
pushAll(store_, batch) ==
  IF batch = {} THEN store_
  ELSE LET b == CHOOSE x \in batch : \A y \in batch : y.n >= x.n
       IN pushAll(Append(store_, b), batch \ {b})

\* The debounced uploadBatch runs and its writes succeed.
LnUpload ==
  /\ lnBatch # {}
  /\ lnStore' = pushAll(lnStore, lnBatch)
  /\ lnBatch' = {}
  /\ lnOwn' = {n \in lnOwn : \A b \in lnBatch : ~(b.by = "me" /\ b.n = n)}
  /\ lnDirty' = TRUE
  /\ lnLast' = NoLine
  /\ UNCHANGED <<lnLines, lnDrawing, lnMine, lnTheirs>>
  /\ UNCHANGED lnCleared
  /\ UNCHANGED exceptLn

\* The partner's canvas uploads a stroke.
LnPartnerStroke ==
  /\ lnTheirs < MaxLines
  /\ lnTheirs' = lnTheirs + 1
  /\ lnStore' = Append(lnStore,
                       [by |-> "partner", n |-> lnTheirs + 1, pts |-> 2])
  /\ lnDirty' = TRUE
  /\ lnLast' = NoLine
  /\ UNCHANGED <<lnLines, lnDrawing, lnBatch, lnOwn, lnMine>>
  /\ lnCleared' = FALSE
  /\ UNCHANGED exceptLn

\* The data callback of the canvas query, then the effect on
\* remoteStrokes.
LnSnapshot ==
  /\ lnDirty
  /\ lnDirty' = FALSE
  /\ lnLines' = remoteEffect(lnLines, lnStore)
  /\ lnLast' = NoLine
  /\ UNCHANGED <<lnDrawing, lnBatch, lnStore, lnOwn, lnMine, lnTheirs>>
  /\ UNCHANGED lnCleared
  /\ UNCHANGED exceptLn

\* handleClear: setLines([]) and remove(canvasStrokes/{coupleId}).
LnClear ==
  /\ lnLines # << >> \/ lnStore # << >>
  /\ lnLines' = << >>
  /\ lnStore' = << >>
  /\ lnDirty' = TRUE
  /\ lnOwn' = {}
  /\ lnLast' = NoLine
  /\ UNCHANGED <<lnDrawing, lnBatch, lnMine, lnTheirs>>
  /\ lnCleared' = TRUE
  /\ UNCHANGED exceptLn

InitLn ==
  /\ lnLines = << >>
  /\ lnDrawing = FALSE
  /\ lnBatch = {}
  /\ lnStore = << >>
  /\ lnDirty = TRUE
  /\ lnOwn = {}
  /\ lnMine = 0
  /\ lnTheirs = 0
  /\ lnLast = NoLine
  /\ lnCleared = FALSE

NextLn ==
  \/ LnMouseDown
  \/ LnMouseMove
  \/ LnMouseUp
  \/ LnUpload
  \/ LnPartnerStroke
  \/ LnSnapshot
  \/ LnClear

\* ------------------------------------------- sessions of the same user
Sessions == {"s1", "s2"}     \* devices or tabs user U is signed in on

\* A session of U mounts usePresence while connected: the backend receives
\* set(presence/U, online) and the session's onDisconnect registration.
SessOnline(x) ==
  /\ sess[x] # "online"
  /\ sessEvents < MaxSessEvents
  /\ sessEvents' = sessEvents + 1
  /\ sess' = [sess EXCEPT ![x] = "online"]
  /\ sessArmed' = [sessArmed EXCEPT ![x] = TRUE]
  /\ sessClock' = sessClock + 1
  /\ sessPresence' = presenceData(sessClock')
  /\ UNCHANGED exceptSess

\* The effect cleanup of usePresence in one session: set(presence/U,
\* offline); the session stays connected.
SessUnmount(x) ==
  /\ sess[x] = "online"
  /\ sessEvents < MaxSessEvents
  /\ sessEvents' = sessEvents + 1
  /\ sess' = [sess EXCEPT ![x] = "away"]
  /\ sessClock' = sessClock + 1
  /\ sessPresence' = offlineData(sessClock')
  /\ UNCHANGED sessArmed
  /\ UNCHANGED exceptSess

\* AuthProvider.logout in one session: set(presence/U, offline), then
\* signOut.
SessLogout(x) ==
  /\ sess[x] # "out"
  /\ sessEvents < MaxSessEvents
  /\ sessEvents' = sessEvents + 1
  /\ sess' = [sess EXCEPT ![x] = "out"]
  /\ sessClock' = sessClock + 1
  /\ sessPresence' = offlineData(sessClock')
  /\ UNCHANGED sessArmed
  /\ UNCHANGED exceptSess

\* The connection of one session is lost: the backend runs the
\* onDisconnect write the session registered.
SessDrop(x) ==
  /\ sessArmed[x]
  /\ sessEvents < MaxSessEvents
  /\ sessEvents' = sessEvents + 1
  /\ sess' = [sess EXCEPT ![x] = "out"]
  /\ sessArmed' = [sessArmed EXCEPT ![x] = FALSE]
  /\ sessClock' = sessClock + 1
  /\ sessPresence' = offlineData(sessClock')
  /\ UNCHANGED exceptSess

InitSess ==
  /\ sess = [x \in Sessions |-> "out"]
  /\ sessArmed = [x \in Sessions |-> FALSE]
  /\ sessPresence = NoPresence
  /\ sessClock = 0
  /\ sessEvents = 0

NextSess ==
  \/ \E x \in Sessions : SessOnline(x)
  \/ \E x \in Sessions : SessUnmount(x)
  \/ \E x \in Sessions : SessLogout(x)
  \/ \E x \in Sessions : SessDrop(x)

\* ------------------------------------------------- reactions on photos
PrPhotos == {"ph1", "ph2"}    \* photos of dailyPhotos/{coupleId}

\* handleReaction: currentReactions?.[uid] ? remove(reactionRef)
\* : set(reactionRef, {timestamp: Date.now()}).
toggled(current, t) == IF current # 0 THEN 0 ELSE t

\* The reaction button of a photo is clicked: handleReaction(photo.id,
\* photo.reactions) with the reactions of the last render.
HandleReaction(ph) ==
  /\ prNow < MaxPrCalls
  /\ prNow' = prNow + 1
  /\ prStore' = [prStore EXCEPT ![ph] = toggled(prView[ph], prNow')]
  /\ prDirty' = TRUE
  /\ prPair' = [prPair EXCEPT ![ph] =
                  IF @.calls = 1
                  THEN [@ EXCEPT !.calls = 2]
                  ELSE [before |-> prStore[ph], calls |-> 1]]
  /\ UNCHANGED prView
  /\ UNCHANGED exceptPr

\* The data callback of the photos query: the photos are rendered with the
\* stored reactions.
PrSnapshot ==
  /\ prDirty
  /\ prDirty' = FALSE
  /\ prView' = prStore
  /\ UNCHANGED <<prStore, prNow, prPair>>
  /\ UNCHANGED exceptPr

InitPr ==
  /\ prStore = [ph \in PrPhotos |-> 0]
  /\ prView = [ph \in PrPhotos |-> 0]
  /\ prDirty = FALSE
  /\ prNow = 0
  /\ prPair = [ph \in PrPhotos |-> [before |-> 0, calls |-> 0]]

NextPr ==
  \/ \E ph \in PrPhotos : HandleReaction(ph)
  \/ PrSnapshot

\* The initial state of the groups above.
InitSync ==
  /\ InitOpt
  /\ InitPres
  /\ InitTyp
  /\ InitRx
  /\ InitUp
  /\ InitBw
  /\ InitDw
  /\ InitDraw
  /\ InitCl
  /\ InitRs
  /\ InitLn
  /\ InitSess
  /\ InitPr

\* ------------------------------------------------------------------ Init
InitSub ==
  /\ store = [p \in Paths |-> NullVal]
  /\ listeners = {}
  /\ dirty = {}
  /\ hook = [c \in Consumers |-> hookInit]
  /\ nextSub = 1
  /\ closed = {}
  /\ lastCb = NoCallback

Init == InitSub /\ InitChat /\ InitPhotosEmpty /\ InitSync

NextSub ==
  \/ \E c \in Consumers, k \in {"data", "query"}, p \in Paths : Mount(c, k, p)
  \/ \E c \in Consumers, p \in Paths : ChangePath(c, p)
  \/ \E c \in Consumers : Unmount(c)
  \/ \E p \in Paths, v \in Values : RemoteWrite(p, v)
  \/ \E l \in listeners : Deliver(l)
  \/ \E l \in listeners : Cancel(l)

SpecSub == Init /\ [][NextSub]_vars

SpecChat == Init /\ [][NextChat]_vars

\* React runs the effects of a committed render.
SpecScroll ==
  /\ Init
  /\ [][NextScroll]_vars
  /\ WF_vars(ScrollRestore)

\* The app started on a database that was used before.
InitUsed == InitSub /\ InitChat /\ InitPhotos /\ InitSync

SpecSweep == InitUsed /\ [][NextSweep]_vars

SpecReveal == InitUsed /\ [][NextReveal]_vars

SpecExchange == InitUsed /\ [][NextExchange]_vars

SpecOpt == Init /\ [][NextOpt]_vars

SpecPres == Init /\ [][NextPres]_vars

SpecTyp == Init /\ [][NextTyp]_vars

SpecRx == Init /\ [][NextRx]_vars

SpecOwner == Init /\ [][NextOwner]_vars

SpecFlush == Init /\ [][NextFlush]_vars

SpecWriters == Init /\ [][NextWriters]_vars

SpecTeardown == Init /\ [][NextTeardown]_vars

SpecDraw == Init /\ [][NextDraw]_vars

SpecCl == Init /\ [][NextCl]_vars

SpecRs == Init /\ [][NextRs]_vars

SpecLn == Init /\ [][NextLn]_vars

SpecSess == Init /\ [][NextSess]_vars

SpecPr == Init /\ [][NextPr]_vars

\* ---------------------------------------------------------------- claims
LiveSubs(p) == Cardinality({l \in listeners : l.path = p})
Attached(c, p) == hook[c].mounted /\ hook[c].path = p

\* C1: on every path the number of live backend subscriptions is 0 or 1,
\* and it is 1 iff at least one attach has not been matched by a detach.
C1_RefcountInvariant ==
  \A p \in Paths :
    /\ LiveSubs(p) \in {0, 1}
    /\ (LiveSubs(p) = 1) <=> (\E c \in Consumers : Attached(c, p))

\* The chat has received the snapshot of the current store and limit.
ChatSynced == ~chatDirty /\ chatData # NullMessages

DistinctIds(list) ==
  \A i, j \in 1..Len(list) : i # j => list[i].id # list[j].id

SortedByTimestamp(list) ==
  \A i, j \in 1..Len(list) : i < j => list[i].timestamp <= list[j].timestamp

\* C4 as stated: after the last snapshot the emitted list has exactly N
\* entries for N messages written, pairwise distinct ids, sorted
\* non-decreasing by timestamp.
C4_Original ==
  ChatSynced =>
    /\ Len(chatData) = Len(msgs)
    /\ DistinctIds(chatData)
    /\ SortedByTimestamp(chatData)

\* C4 amended: after the last snapshot the emitted list has exactly
\* min(N, messageLimit) entries, all of them written messages with pairwise
\* distinct ids, sorted non-decreasing by timestamp.
C4_WindowedDedupOrder ==
  ChatSynced =>
    /\ Len(chatData) = Min(Len(msgs), messageLimit)
    /\ \A i \in 1..Len(chatData) :
         /\ chatData[i].id \in 1..Len(msgs)
         /\ chatData[i].timestamp = msgs[chatData[i].id]
    /\ DistinctIds(chatData)
    /\ SortedByTimestamp(chatData)

\* C4 witness: more messages than the window holds, and the emitted list
\* holds a message stamped earlier than one pushed before it.
C4_Witness ==
  /\ ChatSynced
  /\ Len(msgs) > messageLimit
  /\ Len(chatData) = messageLimit
  /\ \E i, j \in 1..Len(chatData) : i < j /\ chatData[i].id > chatData[j].id

\* C5: raising the limit by one page never yields fewer messages than the
\* previous request, and after each snapshot hasMoreMessages is false
\* exactly when the returned count is less than the requested limit.
C5_Pagination ==
  ChatSynced =>
    /\ Len(chatData) >= prevCount
    /\ (hasMoreMessages = FALSE) <=> (Len(chatData) < messageLimit)

\* cleanupOldPhotos has run to completion without a failure.
SweepCompleted ==
  /\ sweepPc = "settled"
  /\ sweepOutcome = "resolved"
  /\ ~sweepLogged
  /\ sweepPending = {}

CoupleViewSynced == ~cvDirty /\ cvPhotos # NullPhotos
CanvasViewSynced == ~canvasDirty /\ remoteStrokes # NullStrokes

InList(list, id) == \E i \in 1..Len(list) : list[i].id = id

\* C6: after one sweep cycle a couple-scoped DailyPhoto or Stroke that was
\* older than 24h at the sweep is absent from the remote subtree and from
\* the client-side view, and one younger than 24h is present in both.
C6_ExpiryAfterSweep ==
  SweepCompleted =>
    /\ \A p \in couplePhotos : ~(p.timestamp + OneDay < sweepNow)
    /\ \A k \in strokes : ~(k.timestamp + OneDay < sweepNow)
    /\ CoupleViewSynced =>
         /\ \A i \in 1..Len(recentPhotos) :
              ~(recentPhotos[i].timestamp + OneDay < sweepNow)
         /\ \A p \in couplePhotos :
              p.timestamp + OneDay > now => InList(recentPhotos, p.id)
    /\ CanvasViewSynced =>
         /\ \A i \in 1..Len(remoteStrokes) :
              ~(remoteStrokes[i].timestamp + OneDay < sweepNow)
         /\ \A k \in strokes :
              k.timestamp + OneDay > now => InList(remoteStrokes, k.id)

\* An entry of the fetched subtree with a timestamp strictly less than
\* now - 24h, now being the time of the sweep.
OlderThanADay(e) == e.hasTimestamp /\ e.timestamp < sweepNow - OneDay

C7_IssuedExactlyExpired ==
  sweepPc \in {"removing", "settled"} =>
    sweepIssued = {e.key : e \in {x \in sweepFetched : OlderThanADay(x)}}

C7_OnlyIssuedRemoved ==
  sweepPending' # sweepPending =>
    /\ \A p \in flatPhotos \ flatPhotos' : p.id \in sweepIssued
    /\ couplePhotos' # couplePhotos => CoupleKey \in sweepIssued

\* C7: one run of cleanupOldPhotos issues a remove for an entry of the
\* fetched subtree iff the entry has a timestamp strictly less than
\* now - 24h; every other entry is left in place by the run, and an empty
\* subtree causes no remove.
C7_SweepRemovesExactlyExpired ==
  []C7_IssuedExactlyExpired /\ [][C7_OnlyIssuedRemoved]_vars

\* C7 witness: a completed run that fetched an entry older than 24h, which
\* it removed, an entry exactly 24h old and an entry without timestamp,
\* which are still stored.
C7_Witness ==
  /\ SweepCompleted
  /\ \E e \in sweepFetched :
       /\ e.key \in sweepIssued
       /\ \A p \in flatPhotos : p.id # e.key
  /\ \E e \in sweepFetched :
       /\ e.hasTimestamp
       /\ e.timestamp = sweepNow - OneDay
       /\ \E p \in flatPhotos : p.id = e.key
  /\ \E e \in sweepFetched : ~e.hasTimestamp
  /\ couplePhotos # {}

\* C8: the promise cleanupOldPhotos returns never rejects, whether the
\* fetch or a remove fails.
C8_SweepNeverRejects == sweepOutcome # "rejected"

\* C8 witness: a remove of the run failed, the failure was logged and the
\* promise resolved.
C8_Witness ==
  /\ sweepPc = "settled"
  /\ sweepIssued # {}
  /\ sweepLogged
  /\ sweepOutcome = "resolved"

\* What each DailyPhotos variant renders of the partner, and whether the
\* local user has a photo in the store or in the variant's last snapshot.
CoupleExposed == \E i \in 1..Len(recentPhotos) : recentPhotos[i].uid # "me"
CoupleHasMine ==
  \/ Mine(couplePhotos) # {}
  \/ cvPhotos # NullPhotos /\ \E i \in 1..Len(cvPhotos) : cvPhotos[i].uid = "me"
ExchangeExposed == xvPartner # NoPhoto /\ xvMine # NoPhoto
ExchangeHasMine == Mine(flatPhotos) # {} \/ xvMine # NoPhoto
LoadingExposed == lvPartner # NoPhoto /\ lvMine # NoPhoto
LoadingHasMine == Mine(flatPhotos) # {} \/ lvSawMine

\* C9: no DailyPhotos variant shows the partner's photo image while the
\* local participant has no photo of their own.
C9_MutualReveal ==
  /\ CoupleExposed => CoupleHasMine
  /\ ExchangeExposed => ExchangeHasMine
  /\ LoadingExposed => LoadingHasMine

\* C10: no DailyPhoto and no Stroke older than 24h is in the list handed
\* to rendering.
C10_NoExpiredRendered ==
  /\ \A i \in 1..Len(recentPhotos) : now - recentPhotos[i].timestamp <= OneDay
  /\ remoteStrokes # NullStrokes =>
       \A i \in 1..Len(remoteStrokes) :
         now - remoteStrokes[i].timestamp <= OneDay

\* The call that took the step, if the step was one of a call.
Moved(i) == calls'[i] # calls[i]

\* C11: a performUpdate whose updateFn rejects leaves no entry for its key
\* in the pending overlay when it settles, and rejects with the very error
\* updateFn raised.
C11_RollbackClearsAndRethrows ==
  [][\A i \in 1..MaxCalls :
       (Moved(i) /\ calls'[i].state = "RolledBack") =>
         /\ pending'[calls[i].key] = NoEntry
         /\ calls'[i].raised \in Errors
         /\ calls'[i].outcome = calls'[i].raised]_vars

\* C11 witness: a call was rolled back with error e2 while an entry of the
\* other key is still pending.
C11_Witness ==
  \E i, j \in 1..MaxCalls :
    /\ calls[i].state = "RolledBack"
    /\ calls[i].outcome = "e2"
    /\ pending[calls[i].key] = NoEntry
    /\ calls[j].state = "Optimistic"
    /\ calls[j].key # calls[i].key

Phase(state) ==
  CASE state = "Idle" -> 0
    [] state = "Optimistic" -> 1
    [] OTHER -> 2

C12_OncePerCall ==
  \A i \in 1..MaxCalls :
    calls[i].invoked = (IF calls[i].state = "Idle" THEN 0 ELSE 1)

C12_StepOfCall ==
  \A i \in 1..MaxCalls :
    Moved(i) =>
      /\ Phase(calls'[i].state) = Phase(calls[i].state) + 1
      /\ \A k \in Keys \ {calls'[i].key} : pending'[k] = pending[k]

\* C12: every performUpdate call goes Idle -> Optimistic -> Committed or
\* RolledBack, one step at a time and never back, invoking updateFn exactly
\* once; the start and the settlement of a call leave the pending entry of
\* every other key as it was.
C12_StateMachineAndIndependence ==
  []C12_OncePerCall /\ [][C12_StepOfCall]_vars

\* C12 witness: two calls with different keys were both started and one of
\* them has settled while the entry of the other is still pending.
C12_Witness ==
  \E i, j \in 1..MaxCalls :
    /\ calls[i].key # calls[j].key
    /\ calls[i].state \in {"Committed", "RolledBack"}
    /\ calls[j].state = "Optimistic"
    /\ pending[calls[j].key] # NoEntry

\* C13: once the backend has handled an ungraceful loss of the connection
\* on which presence/U was set online, presence/U is {online: false,
\* lastSeen: T} with T the time of the loss, with no client code involved.
C13_DropYieldsOffline ==
  (dropSeen /\ onlineSet) => presence = offlineData(srvClock)

RxViewSynced == rxLast.coll # "none" /\ ~rxDirty[rxLast.coll]

\* C15: once the local user's snapshot of the collection is up to date
\* after a participant reacted to an existing message, that message shows
\* the reaction under the reactor's user id, the collection has as many
\* messages as before, and no message holds two reactions of one user.
C15_ReactionOnSameMessage ==
  RxViewSynced =>
    /\ \E m \in rxView[rxLast.coll] :
         /\ m.id = rxLast.msg
         /\ [uid |-> rxLast.uid, emoji |-> rxLast.emoji] \in m.reactions
    /\ Cardinality(rxView[rxLast.coll]) = rxLast.count
    /\ \A m \in rxView[rxLast.coll] : \A r1, r2 \in m.reactions :
         r1.uid = r2.uid => r1 = r2

\* C18: a delete requested for a message or a photo whose author is not
\* the calling user issues no remote remove.
C18_ForeignDeleteRefused ==
  (delLast.kind # "none" /\ delLast.author # delLast.caller) => ~delLast.issued

\* The operations of the flush useBatchedWrites is awaiting.
BwCurrent == {w.op : w \in {x \in bwInflight : bwAwaiting /\ x.flush = bwFlush}}

\* C16: an item leaves a batch only by a flush that issued one append for
\* it; while the appends of a flush are in flight its items are still in
\* the batch; after a flush has settled no failed item is in the batch.
C16_FlushClearsAfterSettle ==
  /\ \A i \in Items : upIssued[i] <= 1
  /\ \A i \in 1..(upNext - 1) : i \notin upBatch => upIssued[i] = 1
  /\ \A i \in 1..(bwNext - 1) : i \notin queue => bwIssued[i] >= 1
  /\ upInflight \subseteq upBatch
  /\ BwCurrent \subseteq queue
  /\ upFailed \cap upBatch = {}
  /\ ~bwAwaiting => bwFailed \cap queue = {}

\* C17: a component that has been torn down has no timer pending, and no
\* flush runs after the teardown.
C17_TimersClearedOnTeardown ==
  /\ ~upMounted => upTimers = {}
  /\ ~dwMounted => dwTimers = {}
  /\ ~typMounted => typTimers = {}
  /\ ~upLate

\* C19: no write is issued more often than it was requested: every queued
\* operation and every batched stroke is issued at most once, every
\* debounced path at most once per debouncedWrite call.
C19_NoAutomaticRetry ==
  /\ \A i \in Items : bwIssued[i] <= 1
  /\ \A i \in Items : upIssued[i] <= 1
  /\ \A d \in DwPaths : dwIssued[d] <= dwRequested[d]

C21_StartGuarded ==
  (~isLoadingMore /\ isLoadingMore') =>
    /\ scrollTop' = 0
    /\ ~chatLoading
    /\ hasMoreMessages
    /\ messageLimit' = messageLimit + PageSize

BothUploadTime ==
  IF xvMine.timestamp > xvPartner.timestamp
  THEN xvMine.timestamp ELSE xvPartner.timestamp

C22_SnapshotStep ==
  ExchangeSnapshot =>
    /\ flatPhotos' \subseteq flatPhotos
    /\ (flatPhotos' # flatPhotos) <=>
         /\ \E m \in flatPhotos : m.uid = "me"
         /\ \E q \in flatPhotos : q.uid # "me"
         /\ now >= BothUploadTime' + OneDay
    /\ (flatPhotos' # flatPhotos) =>
         flatPhotos \ flatPhotos' = {xvMine', xvPartner'}

\* C22: a snapshot of the photo-exchange view removes the local and the
\* partner photo if and only if both exist and now is at least the later
\* of their timestamps plus 24 hours; otherwise it removes nothing.
C22_RemoveIffWindowElapsed == [][C22_SnapshotStep]_vars

\* C22 witness: both photos were removed by a snapshot taken exactly 24
\* hours after the later upload.
C22_Witness ==
  /\ xvMine # NoPhoto
  /\ xvPartner # NoPhoto
  /\ xvMine \notin flatPhotos
  /\ xvPartner \notin flatPhotos
  /\ now = BothUploadTime + OneDay

C23_SweepsPerStep ==
  Len(sweeps') = Len(sweeps) +
    (IF ~appMounted /\ appMounted' THEN 1
     ELSE IF hours' = hours + 1 /\ appMounted THEN 1
     ELSE 0)

\* C23: a mount of the App starts exactly one sweep, every hour that
\* passes while the App is mounted starts exactly one sweep whatever the
\* outcome of the earlier sweeps, and no other step starts a sweep, in
\* particular no hour that passes after the unmount.
C23_SweepSchedule == [][C23_SweepsPerStep]_vars

\* C23 witness: the first sweep failed before the hourly tick started the
\* second one, and an hour has passed after the unmount with no sweep.
C23_Witness ==
  /\ ~appMounted
  /\ appMounts = 1
  /\ hours = 2
  /\ Len(sweeps) = 2
  /\ sweeps[1].status = "failed"
  /\ sweeps[1].settled < sweeps[2].at
  /\ sweeps[2].at = 1

\* C24: a mounted useRealtimeQuery consumer whose subscription the backend
\* has not cancelled still has its listener registered, whatever other
\* consumers of the same path and query have done.
C24_PeerKeepsListening ==
  \A c \in Consumers :
    (hook[c].mounted /\ hook[c].kind = "query" /\ hook[c].error # "subscribe")
      => hook[c].sub \in Ids(listeners)

\* C25: with path and options fixed and no remote change a hook instance
\* subscribes once: it never unsubscribes and subscribes again, whether
\* its transform is memoized or created anew on every render.
C25_SubscribesOnce == rsSubs <= 1

\* useBatchedWrites has nothing left to do: no timer, no flush processing.
BwIdle == bwMounted /\ bwTimers = {} /\ bwInflight = {} /\ ~processing

\* No operation of useBatchedWrites has failed so far: a rejected operation
\* stays in bwFailed until a later flush calls it a second time.
BwNoFailure == bwFailed = {} /\ \A i \in Items : bwIssued[i] <= 1

\* C26: when no operation has failed, once the hook has nothing left to do
\* every operation passed to addToQueue has been executed exactly once.
C26_ExecutedExactlyOnce ==
  (BwNoFailure /\ BwIdle) => \A i \in 1..(bwNext - 1) : bwIssued[i] = 1

\* C27: every local stroke that is being drawn or waits in the batch, and
\* was not cleared, is in the line list, and a pointer move never appends
\* its point to a stroke of the partner.
C27_OwnStrokeKept ==
  /\ \A n \in lnOwn :
       \E i \in 1..Len(lnLines) : lnLines[i].by = "me" /\ lnLines[i].n = n
  /\ lnLast.by # "partner"

\* C28: once handleClear has completed, and as long as nobody draws,
\* canvasStrokes/{coupleId} is empty.
C28_StaysEmptyAfterClear == lnCleared => lnStore = << >>

\* C29: presence/U is online whenever a session of U is mounted and
\* connected.
C29_OnlineWhileAnySession ==
  (\E x \in Sessions : sess[x] = "online") => sessPresence.online

\* C30: after two handleReaction calls in a row on a photo the user's
\* reaction entry exists exactly if it existed before the two calls.
C30_ToggleTwiceIsNoOp ==
  \A ph \in PrPhotos :
    prPair[ph].calls = 2 => ((prStore[ph] # 0) <=> (prPair[ph].before # 0))

\* C2: no data or error callback runs for a subscription whose effect
\* cleanup has already run.
C2_NoCallbackAfterCleanup ==
  lastCb.kind \in {"data", "cancel"} => lastCb.sub \notin closed

\* C2 witness: a cleanup has just run while an event of its subscription
\* was still undelivered.
C2_Witness == lastCb.kind = "discarded" /\ lastCb.sub \in closed

\* C3: a snapshot whose transform throws records the error, sets loading to
\* false, keeps the data and keeps the listener registered; a snapshot whose
\* transform succeeds replaces data and resets error to null.
C3_TransformErrorRecoverable ==
  [][\A l \in listeners :
       (lastCb'.sub = l.id /\ lastCb'.kind = "data") =>
         IF transform(store[l.path]).threw
         THEN /\ hook'[l.owner].error = "transform"
              /\ hook'[l.owner].loading = FALSE
              /\ hook'[l.owner].data = hook[l.owner].data
              /\ l \in listeners'
         ELSE /\ hook'[l.owner].data = transform(store[l.path]).out
              /\ hook'[l.owner].error = "none"
              /\ hook'[l.owner].loading = FALSE
              /\ l \in listeners']_vars

\* C3 witness: a subscription whose transform threw earlier has just
\* delivered a good snapshot: error is null again and data is replaced.
C3_Witness ==
  \E c \in Consumers :
    /\ hook[c].mounted
    /\ lastCb = [sub |-> hook[c].sub, kind |-> "data",
                 prevError |-> "transform"]
    /\ hook[c].error = "none"
    /\ hook[c].data # NullData
    /\ hook[c].data # << >>
====
